---------------------------- MODULE Spec2Model ----------------------------
(***************************************************************************)
(* Ledger reconciliation of EP_Forecasting: add_forecast_to_inventory      *)
(* (src/add_forecast_to_inventory.py) together with clean_mi_export        *)
(* (src/helpers/clean_mi_export.py), modelled as a state machine over the  *)
(* workbooks on disk and the locals of one run.                            *)
(*                                                                         *)
(* A worksheet is a dense rectangular grid: a sequence of rows, each a     *)
(* sequence of cells; row 1 is the header row.  A cell value is a record   *)
(* [t, n, s]: t is the Python type of the value, n its numeric payload and *)
(* s its text.  Dates are Excel serial day numbers (day 0 = 1899-12-30),   *)
(* so that the serial-number branch of _to_datetime is the identity on the *)
(* day number and the ISO strings of the model are the real ones.          *)
(***************************************************************************)
EXTENDS Integers, Sequences, FiniteSets, TLC

(***************************************************************************)
(* Cell values                                                             *)
(***************************************************************************)
None == [t |-> "none", n |-> 0, s |-> ""]
Str(x) == [t |-> "str", n |-> 0, s |-> x]
Num(k) == [t |-> "num", n |-> k, s |-> ""]
\* a datetime.datetime: day d, h = 0 at midnight, 1 at noon
DateTime(d, h) == [t |-> "datetime", n |-> 2 * d + h, s |-> ""]
\* a datetime.date
Date(d) == [t |-> "date", n |-> d, s |-> ""]

\* The Excel serial of the civil date y-m-d: the number of days from
\* datetime(1899, 12, 30), the epoch _to_datetime adds a serial number to.
Serial(y, m, d) ==
  LET yy == IF m <= 2 THEN y - 1 ELSE y
      era == yy \div 400
      yoe == yy - era * 400
      mp == IF m > 2 THEN m - 3 ELSE m + 9
      doy == (153 * mp + 2) \div 5 + d - 1
      doe == yoe * 365 + yoe \div 4 - yoe \div 100 + doy
  IN era * 146097 + doe - 719468 + 25569

\* the calendar days of the model
D2020_06_30 == Serial(2020, 6, 30)
D2025_10_31 == Serial(2025, 10, 31)
D2026_06_30 == Serial(2026, 6, 30)
D2027_06_30 == Serial(2027, 6, 30)
\* datetime.now().date() of the runs
RunDay == Serial(2026, 3, 1)

(***************************************************************************)
(* Strings.  str.strip, str.lower, strptime and float() are tables over    *)
(* the strings of the model.                                               *)
(***************************************************************************)
Strip(s) ==
  CASE s = " X " -> "X"
    [] s = " Y " -> "Y"
    [] s = " registry id " -> "registry id"
    [] s = " 2026-06-30 " -> "2026-06-30"
    [] OTHER -> s

Lower(s) ==
  CASE s = "Name" -> "name"
    [] s = "Subitems" -> "subitems"
    [] s = "Registry ID" -> "registry id"
    [] s = "Inventory ID" -> "inventory id"
    [] s = "Status" -> "status"
    [] s = "Issuance Status" -> "issuance status"
    [] s = "Days Since (Status)" -> "days since (status)"
    [] s = "Date - Total Amount" -> "date - total amount"
    [] s = "Total Amount (ACCUs)" -> "total amount (accus)"
    [] s = "Realised Amount (ACCUs to CCG)" -> "realised amount (accus to ccg)"
    [] s = "Date - Realised Amount" -> "date - realised amount"
    [] s = "Forecasted Submission Date" -> "forecasted submission date"
    [] s = "Unit Type" -> "unit type"
    [] s = "Application ID" -> "application id"
    [] s = "Reporting Period - Start" -> "reporting period - start"
    [] s = "Reporting Period - End" -> "reporting period - end"
    [] s = "RP" -> "rp"
    [] s = "Delay Flag" -> "delay flag"
    [] s = "Data Source" -> "data source"
    [] s = "Data Update Date" -> "data update date"
    [] s = "Declared Projects Portfolio" -> "declared projects portfolio"
    [] s = "Project Number" -> "project number"
    [] s = "Entity" -> "entity"
    [] s = "Proponents" -> "proponents"
    [] s = "Methodology" -> "methodology"
    [] s = "Business Unit" -> "business unit"
    [] s = "Project Stage" -> "project stage"
    [] s = "Operational Model" -> "operational model"
    [] s = "Fee Model" -> "fee model"
    [] s = "Number" -> "number"
    [] s = "Unit" -> "unit"
    [] s = "Item ID" -> "item id"
    [] s = "Key" -> "key"
    [] s = "Project ID" -> "project id"
    [] s = "ACCUs Realised" -> "accus realised"
    [] s = "Custom" -> "custom"
    [] s = "X" -> "x"
    [] s = "Y" -> "y"
    [] OTHER -> s

\* str(x) of a value that is not a string
PyStr(v) ==
  CASE v.t = "num" /\ v.n \in 0..9 ->
         <<"0", "1", "2", "3", "4", "5", "6", "7", "8", "9">>[v.n + 1]
    [] v.t = "num" -> "<number>"
    [] OTHER -> "<date>"

_norm(x) ==
  CASE x.t = "none" -> ""
    [] x.t = "str" -> Strip(x.s)
    [] OTHER -> PyStr(x)

_lower_norm(x) == Lower(_norm(x))

\* datetime.strptime(s, fmt).date() tried with "%Y-%m-%d", "%d/%m/%Y", "%m/%d/%Y"
Strptime(s) ==
  CASE s = "2026-06-30" -> Date(D2026_06_30)
    [] s = "30/06/2026" -> Date(D2026_06_30)
    [] s = "2025-10-31" -> Date(D2025_10_31)
    [] s = "06/30/2020" -> Date(D2020_06_30)
    [] OTHER -> None

_to_datetime(v) ==
  CASE v.t = "none" -> None
    [] v.t = "datetime" -> Date(v.n \div 2)
    [] v.t = "date" -> v
    [] v.t = "num" -> Date(v.n)
    [] v.t = "str" -> Strptime(Strip(v.s))
    [] OTHER -> None

\* float(str(v).replace(",", "").strip()), 0.0 when it raises
ParseFloat(s) ==
  CASE s = "4,500" -> 4500
    [] s = "5,000" -> 5000
    [] s = "3" -> 3
    [] OTHER -> 0

_to_float(v) ==
  CASE v.t = "none" -> 0
    [] v.t = "str" -> IF v.s = "" THEN 0 ELSE ParseFloat(v.s)
    [] v.t = "num" -> v.n
    [] OTHER -> 0

\* date + timedelta(days = k)
PlusDays(d, k) == Date(d.n + k)

(***************************************************************************)
(* Worksheets                                                              *)
(***************************************************************************)
Max(a, b) == IF a >= b THEN a ELSE b
Min(S) == CHOOSE x \in S : \A y \in S : x <= y

RECURSIVE SumSeq(_)
SumSeq(q) == IF q = <<>> THEN 0 ELSE Head(q) + SumSeq(Tail(q))

\* the list as it is
Unreversed(q) == q

\* list.reverse()
Reverse(q) == [i \in 1..Len(q) |-> q[Len(q) + 1 - i]]

\* no file at a path
NoFile == <<>>
\* a new, empty worksheet: max_row = max_column = 1, A1 is None
EmptySheet == << <<None>> >>

MaxRow(ws) == Len(ws)
MaxColumn(ws) == Len(ws[1])

\* ws.cell(row, column).value
Cell(ws, row, col) ==
  IF row \in 1..Len(ws) /\ col \in 1..Len(ws[row]) THEN ws[row][col] ELSE None

\* w cells of None
NoneRow(w) == [j \in 1..w |-> None] \o <<>>

\* a row padded with None to at least w cells
PadRow(row, w) == IF Len(row) >= w THEN row ELSE row \o NoneRow(w - Len(row))

\* ws.cell(row, column).value = v; the grid grows to hold the cell
SetCell(ws, row, col, v) ==
  LET h == Max(MaxRow(ws), row)
      w == Max(MaxColumn(ws), col)
      grown == [i \in 1..h |->
                  IF i <= Len(ws) THEN PadRow(ws[i], w) ELSE NoneRow(w)] \o <<>>
  IN [grown EXCEPT ![row][col] = v]

\* a deletion that takes the rows below idx
delete_rows_below(ws, idx, amount) ==
  LET rest == SubSeq(ws, 1, idx) \o SubSeq(ws, idx + 1 + amount, Len(ws))
  IN IF rest = <<>> THEN EmptySheet ELSE rest

\* ws.delete_rows(idx, amount): the rows below move up
delete_rows(ws, idx, amount) ==
  LET rest == SubSeq(ws, 1, idx - 1) \o SubSeq(ws, idx + amount, Len(ws))
  IN IF rest = <<>> THEN EmptySheet ELSE rest

_row_as_list(ws, row, max_col) ==
  [c \in 1..max_col |-> Cell(ws, row, c)] \o <<>>

\* a row cut or padded with None to w cells
Fit(row, w) == [c \in 1..w |-> IF c <= Len(row) THEN row[c] ELSE None]

\* A workbook file holds no datetime.date: saving writes a date as a date
\* cell, which loads as a datetime.datetime at midnight.
SavedCell(v) == IF v.t = "date" THEN DateTime(v.n, 0) ELSE v
SaveWorkbook(ws) ==
  [i \in 1..Len(ws) |->
     [j \in 1..Len(ws[i]) |-> SavedCell(ws[i][j])] \o <<>>] \o <<>>

(***************************************************************************)
(* Program constants                                                       *)
(***************************************************************************)
REQUIRED_INVENTORY_HEADERS ==
  << "Name", "Subitems", "Registry ID", "Inventory ID", "Status",
     "Issuance Status", "Days Since (Status)", "Date - Total Amount",
     "Total Amount (ACCUs)", "Realised Amount (ACCUs to CCG)",
     "Date - Realised Amount", "Forecasted Submission Date",
     "Unit Type", "Application ID", "Reporting Period - Start",
     "Reporting Period - End", "RP", "Delay Flag", "Data Source",
     "Data Update Date", "Declared Projects Portfolio",
     "Project Number", "Entity", "Proponents", "Methodology",
     "Business Unit", "Project Stage", "Operational Model",
     "Fee Model", "Number", "Unit", "Item ID", "Key" >>

PORTFOLIO_FIELDS ==
  << "Name", "Subitems", "Registry ID", "Project ID", "Methodology",
     "Project Stage", "Proponents", "Business Unit",
     "Operational Model", "Fee Model", "Entity", "Number", "Unit" >>

\* the pairs <<forecast header, inventory header>>, in the order of the keys
FORECAST_TO_INVENTORY_MAP ==
  << <<"RP", "RP">>,
     <<"Reporting Period - Start", "Reporting Period - Start">>,
     <<"Reporting Period - End", "Reporting Period - End">>,
     <<"ACCUs Realised", "Total Amount (ACCUs)">> >>

(***************************************************************************)
(* Header maps                                                             *)
(***************************************************************************)
\* key -> the first column of header_row whose normalised text is the key
_build_header_map(ws, header_row) ==
  LET keyAt(c) == _lower_norm(Cell(ws, header_row, c))
      keys == {keyAt(c) : c \in 1..MaxColumn(ws)} \ {""}
  IN [k \in keys |-> Min({c \in 1..MaxColumn(ws) : keyAt(c) = k})]

\* lines 75-77: the required headers written into the columns 1, 2, ... of
\* row 1; the grid grows to hold them
WriteHeaderRow(ws, required_headers) ==
  LET w == Max(MaxColumn(ws), Len(required_headers))
  IN [r \in 1..MaxRow(ws) |->
        [c \in 1..w |->
           IF r = 1 /\ c <= Len(required_headers)
           THEN Str(required_headers[c])
           ELSE Cell(ws, r, c)] \o <<>>] \o <<>>

\* lines 80-86, the loop over required_headers with next_col starting at
\* first_col.  The loop writes header i when its key is neither in
\* header_map nor the key of a header it wrote before; the n-th header it
\* writes goes to column first_col + n - 1.  Returns [ws, map].
EnsureLoop(ws, header_map, required_headers, first_col) ==
  LET key(i) == Lower(Strip(required_headers[i]))
      missing == {i \in 1..Len(required_headers) :
                    /\ key(i) \notin DOMAIN header_map
                    /\ \A j \in 1..(i - 1) : key(j) # key(i)}
      col(i) == first_col + Cardinality({j \in missing : j < i})
      at(c) == {i \in missing : col(i) = c}
      w == Max(MaxColumn(ws), first_col + Cardinality(missing) - 1)
  IN [ws |-> [r \in 1..MaxRow(ws) |->
                [c \in 1..w |->
                   IF r = 1 /\ at(c) # {}
                   THEN Str(required_headers[CHOOSE i \in at(c) : TRUE])
                   ELSE Cell(ws, r, c)] \o <<>>] \o <<>>,
      map |-> [k \in {key(i) : i \in missing} |->
                 col(CHOOSE i \in missing : key(i) = k)] @@ header_map]

\* headers ensured with the missing ones written from the last column on
_ensure_headers_from_last(ws, required_headers) ==
  LET header_map == _build_header_map(ws, 1)
  IN IF DOMAIN header_map = {}
     THEN LET w == WriteHeaderRow(ws, required_headers)
          IN [ws |-> w, map |-> _build_header_map(w, 1)]
     ELSE EnsureLoop(ws, header_map, required_headers, MaxColumn(ws))

\* returns [ws, map]: the sheet with the headers ensured and the header map
_ensure_headers(ws, required_headers) ==
  LET header_map == _build_header_map(ws, 1)
  IN IF DOMAIN header_map = {}
     THEN LET w == WriteHeaderRow(ws, required_headers)
          IN [ws |-> w, map |-> _build_header_map(w, 1)]
     ELSE EnsureLoop(ws, header_map, required_headers, MaxColumn(ws) + 1)

\* the first row r >= 2 whose cell under header_name is value, 0 for None;
\* the caller has checked that the column exists
_find_row_by_value(ws, header_map, header_name, value) ==
  LET target == _norm(value)
      col == header_map[Lower(Strip(header_name))]
      hits == {r \in 2..MaxRow(ws) : _norm(Cell(ws, r, col)) = target}
  IN IF target = "" \/ hits = {} THEN 0 ELSE Min(hits)

\* _write: ws.cell(row, headers[key]).value = value, nothing for an unknown key
_write(ws, headers, row, header_name, value) ==
  LET key == Lower(Strip(header_name))
  IN IF key \notin DOMAIN headers THEN ws
     ELSE SetCell(ws, row, headers[key], value)

(***************************************************************************)
(* clean_mi_export: the rows above the first row whose column A is "Name"  *)
(* are deleted and the workbook is saved over the input file.              *)
(***************************************************************************)
HeaderRowIdx(ws) ==
  LET hits == {r \in 1..MaxRow(ws) :
                 Cell(ws, r, 1).t = "str" /\ Strip(Cell(ws, r, 1).s) = "Name"}
  IN IF hits = {} THEN 0 ELSE Min(hits)

clean_mi_export(ws) ==
  LET header_row_idx == HeaderRowIdx(ws)
  IN IF header_row_idx > 1
     THEN SaveWorkbook(delete_rows(ws, 1, header_row_idx - 1))
     ELSE SaveWorkbook(ws)

(***************************************************************************)
(* The workbooks a run can be given.  A file holds what load_workbook can  *)
(* return: None, strings, numbers and datetimes.                           *)
(***************************************************************************)
\* the most data rows of the initial ledger
MaxLedgerRows == 2
\* the most runs of add_forecast_to_inventory in a behaviour
MaxRuns == 2

StrRow(names) == [c \in 1..Len(names) |-> Str(names[c])]
BlankRow(w) == [c \in 1..w |-> None]

\* Header rows of the ledger; cols names what each column holds.
FullCols == [c \in 1..Len(REQUIRED_INVENTORY_HEADERS) |->
               Lower(REQUIRED_INVENTORY_HEADERS[c])]
LedgerLayouts ==
  { \* every required header, spelled as the program spells it
    [pre |-> 0, header |-> StrRow(REQUIRED_INVENTORY_HEADERS), cols |-> FullCols],
    \* an export with an empty row above the header row
    [pre |-> 1, header |-> StrRow(REQUIRED_INVENTORY_HEADERS), cols |-> FullCols],
    \* headers in another case and padded
    [pre |-> 0,
     header |-> [c \in 1..Len(FullCols) |->
                   IF FullCols[c] = "registry id" THEN Str(" registry id ")
                   ELSE IF FullCols[c] = "total amount (accus)"
                        THEN Str("total amount (accus)")
                   ELSE Str(REQUIRED_INVENTORY_HEADERS[c])],
     cols |-> FullCols],
    \* some required headers missing, and a column the program does not know
    [pre |-> 0,
     header |-> StrRow(<<"Registry ID", "Custom", "Total Amount (ACCUs)",
                         "Reporting Period - End">>),
     cols |-> <<"registry id", "custom", "total amount (accus)",
                "reporting period - end">>],
    \* no header at all
    [pre |-> 0, header |-> BlankRow(Len(FullCols)), cols |-> FullCols] }

\* The data rows of the ledger: registry id, period end, amount.
LedgerRowKinds ==
  { [reg |-> Str("X"), end |-> DateTime(D2026_06_30, 0), amt |-> Num(4500)],
    \* a date kept as text
    [reg |-> Str("X"), end |-> Str("06/30/2020"), amt |-> Num(1000)],
    \* noon of the cutoff day, registry id padded
    [reg |-> Str(" X "), end |-> DateTime(D2025_10_31, 1), amt |-> Num(200)],
    [reg |-> Str("X"), end |-> None, amt |-> Num(7)],
    [reg |-> Str("X"), end |-> Str("n/a"), amt |-> Num(9)],
    \* another project, the amount kept as text
    [reg |-> Str("Y"), end |-> DateTime(D2026_06_30, 0), amt |-> Str("4,500")] }

LedgerRow(cols, k) ==
  [c \in 1..Len(cols) |->
     CASE cols[c] = "registry id" -> k.reg
       [] cols[c] = "reporting period - end" -> k.end
       [] cols[c] = "total amount (accus)" -> k.amt
       [] cols[c] = "status" -> Str("Issued")
       [] cols[c] = "custom" -> Str("note")
       [] OTHER -> None]

SeqsUpTo(S, n) == UNION {[1..m -> S] : m \in 0..n}

LedgerFile(layout, kinds) ==
  [i \in 1..layout.pre |-> BlankRow(Len(layout.header))]
    \o <<layout.header>>
    \o [i \in 1..Len(kinds) |-> LedgerRow(layout.cols, kinds[i])]

\* Every sequence of up to MaxLedgerRows rows under the program's own header
\* row; one row less under the other header rows.
LedgerFiles ==
  {LedgerFile(l, ks) :
     l \in {x \in LedgerLayouts :
              x.pre = 0 /\ x.header = StrRow(REQUIRED_INVENTORY_HEADERS)},
     ks \in SeqsUpTo(LedgerRowKinds, MaxLedgerRows)}
  \cup {LedgerFile(l, ks) :
          l \in LedgerLayouts, ks \in SeqsUpTo(LedgerRowKinds, MaxLedgerRows - 1)}

\* Forecast workbooks: Name, Registry ID, RP, start, end, ACCUs Realised.
ForecastHeader ==
  StrRow(<<"Name", "Registry ID", "RP", "Reporting Period - Start",
           "Reporting Period - End", "ACCUs Realised">>)
FRow(reg, rp, start, end, amt) == <<Str("Project"), reg, rp, start, end, amt>>

\* the forecast of the reconciliation example
FcExample ==
  <<ForecastHeader,
    FRow(Str("X"), Num(1), DateTime(D2025_10_31, 0), DateTime(D2026_06_30, 0),
         Num(5000))>>
\* another project: two periods, the later first; text cells; a row without
\* RP between them
FcTwo ==
  <<ForecastHeader,
    FRow(Str(" Y "), Num(2), Str(" 2026-06-30 "), DateTime(D2027_06_30, 0),
         Str("3")),
    FRow(None, None, None, None, None),
    FRow(Str("Y"), Num(1), Num(D2025_10_31), Str("30/06/2026"), Str("5,000"))>>
\* a period that ends on the day it starts
FcOneDay ==
  <<ForecastHeader,
    FRow(Str("X"), Num(1), DateTime(D2025_10_31, 0), DateTime(D2025_10_31, 0),
         Num(5000))>>
\* registry id present, no row has an RP
FcNoRows == <<ForecastHeader, FRow(Str("X"), None, None, None, None)>>
FcBlankErf ==
  <<ForecastHeader,
    FRow(None, Num(1), DateTime(D2025_10_31, 0), DateTime(D2026_06_30, 0),
         Num(5000))>>
FcBadStart ==
  <<ForecastHeader,
    FRow(Str("X"), Num(1), Str("n/a"), DateTime(D2026_06_30, 0), Num(5000))>>
FcNoEnd ==
  <<ForecastHeader,
    FRow(Str("X"), Num(1), DateTime(D2025_10_31, 0), None, Num(5000))>>
FcNoHeader ==
  <<StrRow(<<"Name", "Registry ID", "RP", "Reporting Period - Start",
             "Reporting Period - End", "Amount">>),
    FRow(Str("X"), Num(1), DateTime(D2025_10_31, 0), DateTime(D2026_06_30, 0),
         Num(5000))>>

\* Declared Projects Portfolio workbooks
PfRow(names, proj, reg, pid) ==
  [c \in 1..Len(names) |->
     CASE names[c] = "Name" -> Str(proj)
       [] names[c] = "Registry ID" -> Str(reg)
       [] names[c] = "Project ID" -> Num(pid)
       [] names[c] = "Methodology" -> Str("HIR")
       [] OTHER -> None]
Without(names, h) ==
  LET k == CHOOSE i \in 1..Len(names) : names[i] = h
  IN SubSeq(names, 1, k - 1) \o SubSeq(names, k + 1, Len(names))

PfOk ==
  <<StrRow(PORTFOLIO_FIELDS),
    PfRow(PORTFOLIO_FIELDS, "Project Y", "Y", 2),
    PfRow(PORTFOLIO_FIELDS, "Project X", "X", 1)>>
\* the project is not in the portfolio
PfNoProject ==
  <<StrRow(PORTFOLIO_FIELDS), PfRow(PORTFOLIO_FIELDS, "Project Y", "Y", 2)>>
\* no Project ID column
PfNoProjectId ==
  <<StrRow(Without(PORTFOLIO_FIELDS, "Project ID")),
    PfRow(Without(PORTFOLIO_FIELDS, "Project ID"), "Project X", "X", 1)>>
\* no Registry ID column
PfNoRegistry ==
  <<StrRow(Without(PORTFOLIO_FIELDS, "Registry ID")),
    PfRow(Without(PORTFOLIO_FIELDS, "Registry ID"), "Project X", "X", 1)>>

\* the forecast and portfolio workbooks a run is started with
Inputs ==
  {[fc |-> f, pf |-> PfOk] :
     f \in {FcExample, FcTwo, FcOneDay, FcNoRows, FcBlankErf,
            FcBadStart, FcNoEnd, FcNoHeader}}
  \cup {[fc |-> FcExample, pf |-> p] :
          p \in {PfNoProject, PfNoProjectId, PfNoRegistry}}

(***************************************************************************)
(* State                                                                   *)
(***************************************************************************)
VARIABLES
  pc,          \* position in add_forecast_to_inventory, "idle" between runs
  error,       \* the raise site a failed run stopped at, "" otherwise
  runs,        \* runs returned so far
  \* files on disk
  miFile,      \* the master inventory export the first run is given
  outFile,     \* the file at save_master_inventory_output, NoFile before
  deltaFile,   \* the workbook at save_forecast_delta_output
  fcFile,      \* the forecast workbook of the run
  pfFile,      \* the portfolio workbook of the run
  cfg,         \* AppConfig of the run
  \* locals of add_forecast_to_inventory
  run_date, erf, forecast_rows, cutoff_start_dt, p_row,
  inventory_ws, i_headers, inventory_snapshot_headers, inv_match_rows_before,
  deleted_rows, kept_rows, r, fi, new_forecast_rows, rows_written,
  lifetime_accu_delta,
  \* history
  mi0, out0,   \* the ledger files on disk when the run started
  delta0,      \* the delta workbook on disk when the run started
  wsLoaded,    \* the inventory sheet as loaded, before _ensure_headers
  ws0,         \* the inventory sheet after _ensure_headers, before deletion
  orig,        \* orig[i]: the row of ws0 that row i of inventory_ws was
  visited,     \* the rows of ws0 the deletion loop has examined, in order
  prev,        \* inputs of the last run, when it succeeded
  \* the forecast scripts and the forecast engine
  job,         \* the script or function that runs, with its constants
  frame,       \* the locals of its loop
  out,         \* the records, rows or periods it has produced, in order
  exc          \* the exception that ended it, "" otherwise

files == <<miFile, outFile, deltaFile, fcFile, pfFile, cfg>>
locals ==
  <<run_date, erf, forecast_rows, cutoff_start_dt, p_row, inventory_ws,
    i_headers, inventory_snapshot_headers, inv_match_rows_before,
    deleted_rows, kept_rows, r, fi, new_forecast_rows, rows_written,
    lifetime_accu_delta>>
history == <<mi0, out0, delta0, wsLoaded, ws0, orig, visited, prev>>
forecaster == <<job, frame, out, exc>>
vars == <<pc, error, runs, files, locals, history, forecaster>>

NoDelta == [exists |-> FALSE]
NoMap == [k \in {} |-> 0]
NoPrev == [ok |-> FALSE, fc |-> NoFile, pf |-> NoFile]
\* no forecast script runs
NoJob == [script |-> ""]
NoFrame == [pc |-> ""]

\* the locals and the run's history before a run has assigned them
LocalsInit ==
  /\ run_date = None
  /\ erf = ""
  /\ forecast_rows = <<>>
  /\ cutoff_start_dt = None
  /\ p_row = 0
  /\ inventory_ws = NoFile
  /\ i_headers = NoMap
  /\ inventory_snapshot_headers = <<>>
  /\ inv_match_rows_before = <<>>
  /\ deleted_rows = <<>>
  /\ kept_rows = <<>>
  /\ r = 0
  /\ fi = 0
  /\ new_forecast_rows = <<>>
  /\ rows_written = 0
  /\ lifetime_accu_delta = 0
  /\ wsLoaded = NoFile
  /\ ws0 = NoFile
  /\ orig = <<>>
  /\ visited = <<>>

\* the same values, assigned when a run returns
ResetLocals ==
  /\ run_date' = None
  /\ erf' = ""
  /\ forecast_rows' = <<>>
  /\ cutoff_start_dt' = None
  /\ p_row' = 0
  /\ inventory_ws' = NoFile
  /\ i_headers' = NoMap
  /\ inventory_snapshot_headers' = <<>>
  /\ inv_match_rows_before' = <<>>
  /\ deleted_rows' = <<>>
  /\ kept_rows' = <<>>
  /\ r' = 0
  /\ fi' = 0
  /\ new_forecast_rows' = <<>>
  /\ rows_written' = 0
  /\ lifetime_accu_delta' = 0
  /\ wsLoaded' = NoFile
  /\ ws0' = NoFile
  /\ orig' = <<>>
  /\ visited' = <<>>

Init ==
  /\ pc = "idle"
  /\ error = ""
  /\ runs = 0
  /\ miFile \in LedgerFiles
  /\ outFile = NoFile
  /\ deltaFile = NoDelta
  /\ fcFile = NoFile
  /\ pfFile = NoFile
  /\ cfg = [master_inventory_workbook |-> "mi",
            save_master_inventory_output |-> "out"]
  /\ mi0 = NoFile
  /\ out0 = NoFile
  /\ delta0 = NoDelta
  /\ prev = NoPrev
  /\ LocalsInit
  /\ job = NoJob
  /\ frame = NoFrame
  /\ out = <<>>
  /\ exc = ""

\* the workbook at config.master_inventory_workbook
MasterFile == IF cfg.master_inventory_workbook = "mi" THEN miFile ELSE outFile

Fail(site) ==
  /\ pc' = "failed"
  /\ error' = site

(***************************************************************************)
(* run_process(config), and lines 173-175: both exports are cleaned in     *)
(* place.  A run is given the ledger the run before saved, when there is   *)
(* one, and saves to the same output path.                                 *)
(***************************************************************************)
Start ==
  /\ pc = "idle"
  /\ runs < MaxRuns
  /\ \E inp \in Inputs :
       LET master == IF outFile = NoFile THEN "mi" ELSE "out"
       IN /\ cfg' = [master_inventory_workbook |-> master,
                     save_master_inventory_output |-> "out"]
          /\ fcFile' = inp.fc
          /\ pfFile' = clean_mi_export(inp.pf)
          /\ miFile' = IF master = "mi" THEN clean_mi_export(miFile) ELSE miFile
          /\ outFile' = IF master = "out" THEN clean_mi_export(outFile) ELSE outFile
  /\ mi0' = miFile
  /\ out0' = outFile
  /\ delta0' = deltaFile
  /\ run_date' = Date(RunDay)
  /\ pc' = "forecast"
  /\ UNCHANGED <<error, runs, deltaFile, erf, forecast_rows, cutoff_start_dt,
                 p_row, inventory_ws, i_headers, inventory_snapshot_headers,
                 inv_match_rows_before, deleted_rows, kept_rows, r, fi,
                 new_forecast_rows, rows_written, lifetime_accu_delta,
                 wsLoaded, ws0, orig, visited, prev>>
  /\ UNCHANGED forecaster

(***************************************************************************)
(* Lines 178-219: the forecast workbook                                    *)
(***************************************************************************)
\* the loop over the forecast rows r.., acc = [err, rows, cutoff]
RECURSIVE ScanForecast(_, _, _, _)
ScanForecast(f_ws, f_headers, row, acc) ==
  IF row > MaxRow(f_ws) THEN acc
  ELSE LET rp_val == Cell(f_ws, row, f_headers["rp"])
           start_dt == _to_datetime(
                         Cell(f_ws, row, f_headers["reporting period - start"]))
       IN IF _norm(rp_val) = "" THEN ScanForecast(f_ws, f_headers, row + 1, acc)
          ELSE IF start_dt = None THEN [acc EXCEPT !.err = "forecast_start"]
          ELSE ScanForecast(f_ws, f_headers, row + 1,
                 [err |-> "",
                  cutoff |-> IF acc.cutoff = None \/ start_dt.n < acc.cutoff.n
                             THEN start_dt ELSE acc.cutoff,
                  rows |-> Append(acc.rows,
                     [row_index |-> row,
                      RP |-> rp_val,
                      start |-> start_dt,
                      end |-> _to_datetime(
                        Cell(f_ws, row, f_headers["reporting period - end"])),
                      accus |-> Cell(f_ws, row, f_headers["accus realised"])])])

LoadForecast ==
  /\ pc = "forecast"
  /\ LET f_ws == fcFile
         b2 == _norm(Cell(f_ws, 2, 2))
         f_headers == _build_header_map(f_ws, 1)
         missing == {i \in 1..Len(FORECAST_TO_INVENTORY_MAP) :
                       Lower(Strip(FORECAST_TO_INVENTORY_MAP[i][1])) \notin DOMAIN f_headers}
         scan == ScanForecast(f_ws, f_headers, 2,
                              [err |-> "", rows |-> <<>>, cutoff |-> None])
     IN /\ erf' = b2
        /\ IF b2 = "" THEN
             /\ Fail("erf_blank")
             /\ UNCHANGED <<forecast_rows, cutoff_start_dt>>
           ELSE IF missing # {} THEN
             /\ Fail("forecast_header")
             /\ UNCHANGED <<forecast_rows, cutoff_start_dt>>
           ELSE IF scan.err # "" THEN
             /\ Fail(scan.err)
             /\ UNCHANGED <<forecast_rows, cutoff_start_dt>>
           ELSE IF scan.cutoff = None THEN
             /\ Fail("no_forecast_rows")
             /\ UNCHANGED <<forecast_rows, cutoff_start_dt>>
           ELSE
             /\ forecast_rows' = scan.rows
             /\ cutoff_start_dt' = scan.cutoff
             /\ pc' = "portfolio"
             /\ UNCHANGED error
  /\ UNCHANGED <<runs, files, run_date, p_row, inventory_ws, i_headers,
                 inventory_snapshot_headers, inv_match_rows_before,
                 deleted_rows, kept_rows, r, fi, new_forecast_rows,
                 rows_written, lifetime_accu_delta, history>>
  /\ UNCHANGED forecaster

(***************************************************************************)
(* Lines 222-231: the project's row of the portfolio                       *)
(***************************************************************************)
LoadPortfolio ==
  /\ pc = "portfolio"
  /\ LET p_ws == pfFile
         p_headers == _build_header_map(p_ws, 1)
         found == _find_row_by_value(p_ws, p_headers, "Registry ID", Str(erf))
     IN IF "registry id" \notin DOMAIN p_headers THEN
          /\ Fail("portfolio_registry_column")
          /\ UNCHANGED p_row
        ELSE IF found = 0 THEN
          /\ Fail("project_not_found")
          /\ UNCHANGED p_row
        ELSE
          /\ p_row' = found
          /\ pc' = "inventory"
          /\ UNCHANGED error
  /\ UNCHANGED <<runs, files, run_date, erf, forecast_rows, cutoff_start_dt,
                 inventory_ws, i_headers, inventory_snapshot_headers,
                 inv_match_rows_before, deleted_rows, kept_rows, r, fi,
                 new_forecast_rows, rows_written, lifetime_accu_delta, history>>
  /\ UNCHANGED forecaster

(***************************************************************************)
(* Lines 234-254: the inventory sheet, its headers, the snapshot           *)
(***************************************************************************)
\* the rows 2.. of ws whose registry id is erf, each as a list of max_col cells
MatchRows(ws, col, id) ==
  SelectSeq([i \in 1..MaxRow(ws) - 1 |-> _row_as_list(ws, i + 1, MaxColumn(ws))],
            LAMBDA row : _norm(row[col]) = id)

LoadInventory ==
  /\ pc = "inventory"
  /\ LET m_ws == MasterFile
         eh == _ensure_headers(m_ws, REQUIRED_INVENTORY_HEADERS)
     IN IF "registry id" \notin DOMAIN eh.map
           \/ "reporting period - end" \notin DOMAIN eh.map
        THEN /\ Fail("inventory_column")
             /\ UNCHANGED <<inventory_ws, i_headers, inventory_snapshot_headers,
                            inv_match_rows_before, r, wsLoaded, ws0, orig>>
        ELSE /\ inventory_ws' = eh.ws
             /\ i_headers' = eh.map
             /\ inventory_snapshot_headers' =
                  _row_as_list(eh.ws, 1, MaxColumn(eh.ws))
             /\ inv_match_rows_before' =
                  MatchRows(eh.ws, eh.map["registry id"], erf)
             /\ r' = MaxRow(eh.ws)
             /\ wsLoaded' = m_ws
             /\ ws0' = eh.ws
             /\ orig' = [i \in 1..MaxRow(eh.ws) |-> i]
             /\ pc' = "delete"
             /\ UNCHANGED error
  /\ UNCHANGED <<runs, files, run_date, erf, forecast_rows, cutoff_start_dt,
                 p_row, deleted_rows, kept_rows, fi, new_forecast_rows,
                 rows_written, lifetime_accu_delta, mi0, out0, delta0, visited,
                 prev>>
  /\ UNCHANGED forecaster

(***************************************************************************)
(* Lines 261-278: the deletion loop, from the last row up to row 2         *)
(***************************************************************************)
\* a comparison that also takes a period end on the cutoff itself
IsOnOrAfterCutoff(rp_end_dt, cutoff) == rp_end_dt.n >= cutoff.n

\* rp_end_dt > cutoff_start_dt
IsAfterCutoff(rp_end_dt, cutoff) == rp_end_dt.n > cutoff.n

\* orig without its entry at position idx
DropAt(q, idx) == SubSeq(q, 1, idx - 1) \o SubSeq(q, idx + 1, Len(q))

\* one iteration, at row r
DeleteStep ==
  /\ pc = "delete"
  /\ r > 1
  /\ LET inv_registry_col == i_headers["registry id"]
         inv_rpend_col == i_headers["reporting period - end"]
         rp_end_dt == _to_datetime(Cell(inventory_ws, r, inv_rpend_col))
         row == _row_as_list(inventory_ws, r, MaxColumn(inventory_ws))
     IN IF _norm(Cell(inventory_ws, r, inv_registry_col)) # erf
        THEN UNCHANGED <<inventory_ws, deleted_rows, kept_rows, orig>>
        ELSE IF rp_end_dt = None
        THEN /\ kept_rows' = Append(kept_rows, row)
             /\ UNCHANGED <<inventory_ws, deleted_rows, orig>>
        ELSE IF IsAfterCutoff(rp_end_dt, cutoff_start_dt)
        THEN /\ deleted_rows' = Append(deleted_rows, row)
             /\ inventory_ws' = delete_rows(inventory_ws, r, 1)
             /\ orig' = DropAt(orig, r)
             /\ UNCHANGED kept_rows
        ELSE /\ kept_rows' = Append(kept_rows, row)
             /\ UNCHANGED <<inventory_ws, deleted_rows, orig>>
  /\ visited' = Append(visited, orig[r])
  /\ r' = r - 1
  /\ UNCHANGED <<pc, error, runs, files, run_date, erf, forecast_rows,
                 cutoff_start_dt, p_row, i_headers, inventory_snapshot_headers,
                 inv_match_rows_before, fi, new_forecast_rows, rows_written,
                 lifetime_accu_delta, mi0, out0, delta0, wsLoaded, ws0, prev>>
  /\ UNCHANGED forecaster

\* the loop is over: both lists are put in sheet order
DeleteDone ==
  /\ pc = "delete"
  /\ r <= 1
  /\ kept_rows' = Reverse(kept_rows)
  /\ deleted_rows' = Reverse(deleted_rows)
  /\ fi' = 1
  /\ pc' = "append"
  /\ UNCHANGED <<error, runs, files, run_date, erf, forecast_rows,
                 cutoff_start_dt, p_row, inventory_ws, i_headers,
                 inventory_snapshot_headers, inv_match_rows_before, r,
                 new_forecast_rows, rows_written, lifetime_accu_delta, history>>
  /\ UNCHANGED forecaster

(***************************************************************************)
(* Lines 284-332: one inventory row per forecast row                       *)
(***************************************************************************)
\* the loop over PORTFOLIO_FIELDS[i..], st = [err, ws]; it ends at the first
\* field the portfolio has no column for
RECURSIVE WritePortfolio(_, _, _, _, _, _, _)
WritePortfolio(st, headers, out_row, p_ws, p_headers, prow, i) ==
  IF i > Len(PORTFOLIO_FIELDS) \/ st.err # "" THEN st
  ELSE LET field == PORTFOLIO_FIELDS[i]
           src_key == Lower(Strip(field))
           val == Cell(p_ws, prow, p_headers[src_key])
           dest_field == IF src_key = "project id"
                         THEN "Project Number" ELSE field
       IN WritePortfolio(
            IF src_key \notin DOMAIN p_headers
            THEN [err |-> "portfolio_column", ws |-> st.ws]
            ELSE [err |-> "",
                  ws |-> _write(st.ws, headers, out_row, dest_field, val)],
            headers, out_row, p_ws, p_headers, prow, i + 1)

\* the period start of the forecast row as it is
SameStart(fr) == fr.start

\* the period start written for a forecast row
NewRowStart(fr) == PlusDays(fr.start, 1)

\* lines 302-324: the forecast, derived and fixed cells of the new row
WriteForecast(ws, headers, out_row, fr, today) ==
  LET w1 == _write(ws, headers, out_row, "RP", fr.RP)
      w2 == _write(w1, headers, out_row, "Reporting Period - Start",
                   NewRowStart(fr))
      w3 == _write(w2, headers, out_row, "Reporting Period - End", fr.end)
      w4 == _write(w3, headers, out_row, "Total Amount (ACCUs)", fr.accus)
      w5 == _write(w4, headers, out_row, "Forecasted Submission Date",
                   PlusDays(fr.end, 2))
      w6 == _write(w5, headers, out_row, "Date - Total Amount",
                   PlusDays(fr.end, 92))
      w7 == _write(w6, headers, out_row, "Status", Str("Forecasted"))
  IN _write(w7, headers, out_row, "Data Update Date", today)

\* the new row in REQUIRED_INVENTORY_HEADERS order
CaptureRow(ws, headers, out_row) ==
  [c \in 1..Len(REQUIRED_INVENTORY_HEADERS) |->
     LET key == Lower(Strip(REQUIRED_INVENTORY_HEADERS[c]))
     IN IF key \in DOMAIN headers THEN Cell(ws, out_row, headers[key])
        ELSE None]

\* the last row of the sheet
LastRow(ws) == MaxRow(ws)

\* the row below which a new row is written
OutRow(ws) == MaxRow(ws) + 1

AppendStep ==
  /\ pc = "append"
  /\ fi <= Len(forecast_rows)
  /\ LET fr == forecast_rows[fi]
         out_row == OutRow(inventory_ws)
         wp == WritePortfolio([err |-> "", ws |-> inventory_ws], i_headers,
                              out_row, pfFile,
                              _build_header_map(pfFile, 1), p_row, 1)
         wf == WriteForecast(wp.ws, i_headers, out_row, fr, run_date)
     IN IF fr.end = None THEN
          /\ Fail("forecast_end")
          /\ UNCHANGED <<inventory_ws, new_forecast_rows, rows_written, fi>>
        ELSE IF wp.err # "" THEN
          /\ Fail(wp.err)
          /\ inventory_ws' = wp.ws
          /\ UNCHANGED <<new_forecast_rows, rows_written, fi>>
        ELSE
          /\ inventory_ws' = wf
          /\ new_forecast_rows' =
               Append(new_forecast_rows, CaptureRow(wf, i_headers, out_row))
          /\ rows_written' = rows_written + 1
          /\ fi' = fi + 1
          /\ UNCHANGED <<pc, error>>
  /\ UNCHANGED <<runs, files, run_date, erf, forecast_rows, cutoff_start_dt,
                 p_row, i_headers, inventory_snapshot_headers,
                 inv_match_rows_before, deleted_rows, kept_rows, r,
                 lifetime_accu_delta, history>>
  /\ UNCHANGED forecaster

(***************************************************************************)
(* Lines 334-356: the lifetime delta, and the inventory saved              *)
(***************************************************************************)
accu_header == "Total Amount (ACCUs)"

\* {h: i for i, h in enumerate(headers)}.get(name): the last column whose
\* header value is name itself, 0 when there is none
ExactIndex(headers, name) ==
  LET hits == {c \in 1..Len(headers) : headers[c] = Str(name)}
  IN IF hits = {} THEN 0 ELSE CHOOSE c \in hits : \A d \in hits : d <= c

\* sum(_to_float(row[col]) for row in rows), 0.0 when the header is not found
ColumnTotal(headers, rows) ==
  LET col_i == ExactIndex(headers, accu_header)
  IN IF col_i = 0 THEN 0
     ELSE SumSeq([i \in 1..Len(rows) |-> _to_float(rows[i][col_i])])

LifetimeDelta(snapshot_headers, new_rows, removed_rows) ==
  ColumnTotal(StrRow(REQUIRED_INVENTORY_HEADERS), new_rows)
    - ColumnTotal(snapshot_headers, removed_rows)

SaveInventory ==
  /\ pc = "append"
  /\ fi > Len(forecast_rows)
  /\ lifetime_accu_delta' =
       LifetimeDelta(inventory_snapshot_headers, new_forecast_rows, deleted_rows)
  /\ outFile' = SaveWorkbook(inventory_ws)
  /\ pc' = "report"
  /\ UNCHANGED <<error, runs, miFile, deltaFile, fcFile, pfFile, cfg, run_date,
                 erf, forecast_rows, cutoff_start_dt, p_row, inventory_ws,
                 i_headers, inventory_snapshot_headers, inv_match_rows_before,
                 deleted_rows, kept_rows, r, fi, new_forecast_rows,
                 rows_written, history>>
  /\ UNCHANGED forecaster

(***************************************************************************)
(* Lines 358-472: the forecast delta workbook                              *)
(***************************************************************************)
\* sheet "New Inventory Rows": a kept row in REQUIRED_INVENTORY_HEADERS order
KeptAsRequired(snapshot_headers, row_vals) ==
  [c \in 1..Len(REQUIRED_INVENTORY_HEADERS) |->
     LET i == ExactIndex(snapshot_headers, REQUIRED_INVENTORY_HEADERS[c])
     IN IF i = 0 THEN None ELSE row_vals[i]]

DeltaWorkbook ==
  [exists |-> TRUE,
   \* sheet "Summary"
   run_date |-> run_date,
   erf |-> erf,
   cutoff |-> cutoff_start_dt,
   rows_deleted |-> Len(deleted_rows),
   rows_added |-> rows_written,
   lifetime_accus_delta |-> lifetime_accu_delta,
   \* sheet "Old Inventory Rows"
   old_headers |-> inventory_snapshot_headers,
   old_rows |-> inv_match_rows_before,
   \* sheet "Keep vs Forecast Replace"
   kept |-> kept_rows,
   removed |-> deleted_rows,
   new |-> new_forecast_rows,
   \* sheet "New Inventory Rows"
   new_inventory |->
     [i \in 1..Len(kept_rows) |->
        KeptAsRequired(inventory_snapshot_headers, kept_rows[i])]
       \o new_forecast_rows]

WriteDelta ==
  /\ pc = "report"
  /\ deltaFile' = DeltaWorkbook
  /\ pc' = "done"
  /\ UNCHANGED <<error, runs, miFile, outFile, fcFile, pfFile, cfg, locals,
                 history>>
  /\ UNCHANGED forecaster

(***************************************************************************)
(* The run returns, or its exception reaches the caller                    *)
(***************************************************************************)
Return ==
  /\ pc \in {"done", "failed"}
  /\ pc' = "idle"
  /\ error' = ""
  /\ runs' = runs + 1
  /\ prev' = IF pc = "done" THEN [ok |-> TRUE, fc |-> fcFile, pf |-> pfFile]
             ELSE NoPrev
  /\ mi0' = NoFile
  /\ out0' = NoFile
  /\ delta0' = NoDelta
  /\ ResetLocals
  /\ UNCHANGED files
  /\ UNCHANGED forecaster

Next ==
  \/ Start
  \/ LoadForecast
  \/ LoadPortfolio
  \/ LoadInventory
  \/ DeleteStep
  \/ DeleteDone
  \/ AppendStep
  \/ SaveInventory
  \/ WriteDelta
  \/ Return

Spec == Init /\ [][Next]_vars

(***************************************************************************)
(* Properties of a reconciliation run                                      *)
(***************************************************************************)
Range(q) == {q[i] : i \in 1..Len(q)}

\* the data rows of a ledger file: all rows below the header row
DataRows(f) == SubSeq(f, 2, Len(f))

\* the run has loaded the ledger and not failed
Loaded == pc \in {"delete", "append", "report", "done"}

\* row k of the ledger as loaded is of the target project
Matched(k) == _norm(Cell(ws0, k, i_headers["registry id"])) = erf

\* the parsed period end of row k of the ledger as loaded
EndOf(k) == _to_datetime(Cell(ws0, k, i_headers["reporting period - end"]))

\* row k of the ledger as loaded is no longer in the table
Gone(k) == k \notin Range(orig)

\* C1: a second run on the ledger the first run saved, with the same forecast
\* and the same portfolio, leaves the data rows of the ledger as the first
\* run left them and reports a Lifetime ACCUs Delta of 0.
C1_SecondRunChangesNothing ==
  (pc = "done" /\ prev.ok /\ prev.fc = fcFile /\ prev.pf = pfFile)
    => /\ DataRows(outFile) = DataRows(out0)
       /\ lifetime_accu_delta = 0

\* C2: a run that ended with an error left the master inventory file, and
\* the saved ledger, as they were on disk before the run started.
C2_FailedRunLeavesLedgerFile ==
  pc = "failed" => miFile = mi0 /\ outFile = out0

\* C3: a row of the ledger is deleted exactly when it is of the target
\* project and its period end parses to a date strictly later than the
\* cutoff.  While the loop runs this holds of the rows below r and the rows
\* up to r are where they were; the loop visits the rows from the last one
\* up to row 2, each once, and records one deleted row per row removed; the
\* rows still in the sheet are cell for cell the rows that were loaded.
C3_DeletedIffLaterThanCutoff ==
  Loaded =>
    LET n == MaxRow(ws0)
        from == IF pc = "delete" THEN Max(r, 1) + 1 ELSE 2
    IN /\ \A k \in from..n :
            Gone(k) <=> /\ Matched(k)
                        /\ EndOf(k) # None
                        /\ EndOf(k).n > cutoff_start_dt.n
       /\ \A k \in 1..(from - 1) : k <= Len(orig) /\ orig[k] = k
       /\ visited = [i \in 1..(n + 1 - from) |-> n + 1 - i]
       /\ Len(deleted_rows) = Cardinality({k \in 2..n : Gone(k)})
       /\ pc = "delete" =>
            /\ Len(orig) = MaxRow(inventory_ws)
            /\ \A i \in 1..Len(orig) : inventory_ws[i] = ws0[orig[i]]

\* a run deleted a row that lies above a row of the same project which it
\* kept, one with a period end on the cutoff day or with none
C3_Witness ==
  /\ pc = "append"
  /\ fi = 1
  /\ \E k, j \in 2..MaxRow(ws0) :
       /\ k < j
       /\ Gone(k)
       /\ Matched(j)
       /\ ~Gone(j)
       /\ EndOf(j) = None \/ EndOf(j).n = cutoff_start_dt.n

\* the run has saved the ledger
Saved == pc \in {"report", "done"}

\* the cell of row row of the forecast workbook under header name
FcCell(row, name) == Cell(fcFile, row, _build_header_map(fcFile, 1)[name])

\* a row of the ledger as loaded stays when the table is rebuilt by value
StaysByValue(row) ==
  LET end == _to_datetime(row[i_headers["reporting period - end"]])
  IN ~ /\ _norm(row[i_headers["registry id"]]) = erf
       /\ end # None
       /\ end.n > cutoff_start_dt.n

\* the rows i of the saved ledger that the run appended
AddedRows == (Len(orig) + 1)..MaxRow(outFile)

\* C4: a row of the ledger whose period end is blank or does not parse is,
\* after a successful run, still in the saved ledger with the cells it had;
\* the rows the run examined are the data rows of the file it was given.
\* The saved ledger is the ledger of the next run, so this holds of every
\* sequence of successful runs.
C4_UnparseableEndRetained ==
  pc = "done" =>
    /\ MaxRow(ws0) = MaxRow(wsLoaded)
    /\ \A k \in 2..MaxRow(ws0) :
         /\ Fit(ws0[k], MaxColumn(wsLoaded)) = wsLoaded[k]
         /\ \A c \in (MaxColumn(wsLoaded) + 1)..MaxColumn(ws0) :
              ws0[k][c] = None
         /\ EndOf(k) = None =>
              \E i \in 2..MaxRow(outFile) :
                /\ i <= Len(orig)
                /\ orig[i] = k
                /\ outFile[i] = ws0[k]

\* the second of two successful runs kept a row of its project that has no
\* period end, or one that does not parse, and deleted another row
C4_Witness ==
  /\ pc = "done"
  /\ prev.ok
  /\ \E k, j \in 2..MaxRow(ws0) :
       /\ Matched(k)
       /\ EndOf(k) = None
       /\ Gone(j)

\* C5: the Lifetime ACCUs Delta of a run is the sum of Total Amount (ACCUs)
\* over the rows the run added minus the sum over the rows it removed; in
\* the example (a 1000 row kept, a 4500 row removed, a 5000 row added) it
\* is 500.
C5_DeltaIsAddedMinusRemoved ==
  Saved =>
    LET col == i_headers["total amount (accus)"]
        n == MaxRow(ws0)
        added == [j \in 1..Cardinality(AddedRows) |->
                    _to_float(outFile[Len(orig) + j][col])]
        removed == [k \in 1..n |->
                      IF Gone(k) THEN _to_float(ws0[k][col]) ELSE 0]
    IN lifetime_accu_delta = SumSeq(added) - SumSeq(removed)

\* C6: the saved ledger is the header row, then the rows of the ledger as
\* loaded that stay by value, cell for cell and in their order, then one
\* new row per forecast row in forecast order; the new rows lie below
\* every row that was there.
C6_KeptThenAdded ==
  Saved =>
    LET kept == SelectSeq(DataRows(ws0), StaysByValue)
    IN /\ outFile = SaveWorkbook(inventory_ws)
       /\ MaxRow(outFile) = 1 + Len(kept) + Len(forecast_rows)
       /\ SubSeq(outFile, 1, 1 + Len(kept)) = <<ws0[1]>> \o kept
       /\ Len(orig) = 1 + Len(kept)
       /\ \A j \in 1..Len(forecast_rows) :
            LET row == outFile[1 + Len(kept) + j]
                fr == forecast_rows[j]
            IN /\ row[i_headers["rp"]] = fr.RP
               /\ _norm(row[i_headers["registry id"]]) = erf
               /\ row[i_headers["status"]] = Str("Forecasted")
               /\ row[i_headers["reporting period - end"]]
                    = SavedCell(fr.end)

\* a run that removed a row, kept a row of another project and added the
\* rows of a forecast of two rows
C6_Witness ==
  /\ pc = "done"
  /\ Len(forecast_rows) = 2
  /\ \E k, j \in 2..MaxRow(ws0) : Gone(k) /\ ~Matched(j)

\* C7 as stated: an added row has the period start, the period end and the
\* amount of its forecast row.
C7_CopiesForecastRow ==
  Saved =>
    \A j \in 1..Len(forecast_rows) :
      LET row == outFile[Len(orig) + j]
          f == forecast_rows[j].row_index
      IN /\ _to_datetime(row[i_headers["reporting period - start"]])
              = _to_datetime(FcCell(f, "reporting period - start"))
         /\ _to_datetime(row[i_headers["reporting period - end"]])
              = _to_datetime(FcCell(f, "reporting period - end"))
         /\ row[i_headers["total amount (accus)"]]
              = FcCell(f, "accus realised")

\* C7: an added row has the period end and the amount of its forecast row,
\* and its period start is the day after the forecast row's period start.
C7_StartIsNextDay ==
  Saved =>
    \A j \in 1..Len(forecast_rows) :
      LET row == outFile[Len(orig) + j]
          f == forecast_rows[j].row_index
          start == _to_datetime(row[i_headers["reporting period - start"]])
      IN /\ start # None
         /\ start.n
              = _to_datetime(FcCell(f, "reporting period - start")).n + 1
         /\ _to_datetime(row[i_headers["reporting period - end"]])
              = _to_datetime(FcCell(f, "reporting period - end"))
         /\ row[i_headers["total amount (accus)"]]
              = FcCell(f, "accus realised")

\* a run added the rows of a forecast that holds its dates as text and as a
\* serial number
C7_Witness ==
  /\ pc = "done"
  /\ fcFile = FcTwo
  /\ Cardinality(AddedRows) = 2

\* the forecast rows that have an RP
ForecastDataRows == {row \in 2..MaxRow(fcFile) : _norm(FcCell(row, "rp")) # ""}

\* C8: the cutoff of a run that got past the forecast is the earliest
\* Reporting Period - Start of the forecast rows; a run given a forecast
\* without data rows fails before the ledger is loaded, with the ledger file
\* as it was and neither the ledger output nor the delta workbook written.
C8_EmptyForecastFailsEarly ==
  /\ pc \in {"portfolio", "inventory", "delete", "append", "report", "done"} =>
       /\ ForecastDataRows # {}
       /\ cutoff_start_dt =
            Date(Min({_to_datetime(FcCell(row, "reporting period - start")).n :
                        row \in ForecastDataRows}))
  /\ (pc = "failed" /\ error = "no_forecast_rows") =>
       /\ ForecastDataRows = {}
       /\ inventory_ws = NoFile
       /\ wsLoaded = NoFile
       /\ miFile = mi0
       /\ outFile = out0
       /\ deltaFile = delta0

\* the mandatory columns of the ledger
MandatoryColumns ==
  {"registry id", "reporting period - start", "reporting period - end",
   "total amount (accus)", "status"}

\* C9: a run whose forecast sheet or ledger sheet lacks a mandatory column
\* fails, and fails with the ledger table as it was: a run that went on to
\* work on the ledger was given a ledger that has every mandatory column,
\* and a run that got past the forecast was given every forecast column.
C9_MissingColumnFails ==
  /\ Loaded => MandatoryColumns \subseteq DOMAIN _build_header_map(wsLoaded, 1)
  /\ pc \in {"portfolio", "inventory", "delete", "append", "report", "done"} =>
       \A i \in 1..Len(FORECAST_TO_INVENTORY_MAP) :
         Lower(FORECAST_TO_INVENTORY_MAP[i][1]) \in DOMAIN _build_header_map(fcFile, 1)
  /\ (pc = "failed" /\ error = "forecast_header") =>
       inventory_ws = NoFile /\ wsLoaded = NoFile

\* the columns of a sheet that hold a value: 1..UsedColumns(ws)
UsedColumns(ws) ==
  LET used == {c \in 1..MaxColumn(ws) :
                 \E row \in 1..MaxRow(ws) : ws[row][c] # None}
  IN IF used = {} THEN 0 ELSE CHOOSE c \in used : \A d \in used : d <= c

\* the required headers the ledger as loaded lacks
MissingHeaders ==
  LET loaded == DOMAIN _build_header_map(wsLoaded, 1)
  IN {i \in 1..Len(REQUIRED_INVENTORY_HEADERS) :
        Lower(REQUIRED_INVENTORY_HEADERS[i]) \notin loaded}

\* the columns of the header row of the ensured sheet that hold header i
ColumnsOf(i) ==
  {c \in 1..MaxColumn(ws0) : ws0[1][c] = Str(REQUIRED_INVENTORY_HEADERS[i])}

\* the header cells that were there and the data rows are as they were
HeadersAndDataAsLoaded ==
  /\ MaxRow(ws0) = MaxRow(wsLoaded)
  /\ \A c \in 1..MaxColumn(wsLoaded) :
       wsLoaded[1][c] # None => ws0[1][c] = wsLoaded[1][c]
  /\ \A k \in 2..MaxRow(ws0) :
       /\ Fit(ws0[k], MaxColumn(wsLoaded)) = wsLoaded[k]
       /\ \A c \in (MaxColumn(wsLoaded) + 1)..MaxColumn(ws0) : ws0[k][c] = None

\* C10 as stated: no header cell that was there is moved, renamed or
\* dropped, every missing required header is written once, in a column to
\* the right of every column that held a value, and the data cells are as
\* they were.
C10_MissingHeadersRightOfAll ==
  Loaded =>
    LET missing == MissingHeaders
        used == UsedColumns(wsLoaded)
    IN /\ HeadersAndDataAsLoaded
       /\ \A i \in missing :
            /\ Cardinality(ColumnsOf(i)) = 1
            /\ \A c \in ColumnsOf(i) : c > used

\* C10: no header cell that was there is moved, renamed or dropped and the
\* data cells are as they were.  When the header row holds a header, every
\* missing required header is written once, in the columns to the right of
\* the sheet, in the order of the required headers; when the header row is
\* blank the required headers are written into the columns 1, 2, ...
C10_HeadersEnsured ==
  Loaded =>
    LET missing == MissingHeaders
        w == MaxColumn(wsLoaded)
    IN /\ HeadersAndDataAsLoaded
       /\ i_headers = _build_header_map(ws0, 1)
       /\ IF DOMAIN _build_header_map(wsLoaded, 1) # {}
          THEN /\ MaxColumn(ws0) = w + Cardinality(missing)
               /\ \A i \in missing :
                    ColumnsOf(i) = {w + Cardinality({j \in missing : j <= i})}
          ELSE /\ MaxColumn(ws0) = Max(w, Len(REQUIRED_INVENTORY_HEADERS))
               /\ \A i \in 1..Len(REQUIRED_INVENTORY_HEADERS) :
                    ws0[1][i] = Str(REQUIRED_INVENTORY_HEADERS[i])

\* a run loaded a ledger that has a column the program does not know and
\* lacks required headers, and has a data row
C10_Witness ==
  /\ pc = "delete"
  /\ "custom" \in DOMAIN _build_header_map(wsLoaded, 1)
  /\ MissingHeaders # {}
  /\ MaxRow(wsLoaded) > 1


(***************************************************************************)
(* The forecast scripts and the forecast engine                            *)
(*                                                                         *)
(* src/PF_2020/PF_Schedule4_Forecaster.py, src/PF_2020/PF_Sch4_Forecaster  *)
(* .py, src/PF_2020/PF_Sch1_Forecaster.py, src/PF_2020/Coalara_Forecaster/ *)
(* Coalara_Calculatorv2.py, src/EP_2024/250423_monthly_forecasts_Blackwood *)
(* .py and run_engine of src/Ep_Forecast_Engine.py.  One of them runs in a *)
(* behaviour of ForecastSpec: job names it and holds the constants it was  *)
(* edited to and the values its workbook yields, frame holds the locals of *)
(* its loop, out the rows it has produced.                                 *)
(*                                                                         *)
(* A calendar date is a record [year, month, day].  An amount is an        *)
(* integer number of 1/4800 of a tonne, so that a hundredth (what          *)
(* round(x, 2) keeps), n/180 of a whole number of tonnes and three         *)
(* quarters of either are exact.                                           *)
(***************************************************************************)
date(y, m, d) == [year |-> y, month |-> m, day |-> d]
datetime(y, m, d) == date(y, m, d)

IsLeap(y) == (y % 4 = 0 /\ y % 100 # 0) \/ y % 400 = 0

\* calendar.monthrange(y, m)[1]
monthrange(y, m) ==
  IF m = 2 THEN (IF IsLeap(y) THEN 29 ELSE 28)
  ELSE IF m \in {4, 6, 9, 11} THEN 30 ELSE 31

IsDate(d) ==
  /\ d.month \in 1..12
  /\ d.day \in 1..monthrange(d.year, d.month)

\* d.toordinal(), up to a constant
toordinal(d) == Serial(d.year, d.month, d.day)

\* d + relativedelta(months=n): the day is cut to the length of the month
AddMonths(d, n) ==
  LET total == d.year * 12 + (d.month - 1) + n
      y == total \div 12
      m == (total % 12) + 1
  IN date(y, m, IF d.day <= monthrange(y, m) THEN d.day ELSE monthrange(y, m))

\* d + relativedelta(years=n)
AddYears(d, n) == AddMonths(d, 12 * n)

\* d + timedelta(days=1)
NextDay(d) ==
  IF d.day < monthrange(d.year, d.month) THEN date(d.year, d.month, d.day + 1)
  ELSE IF d.month < 12 THEN date(d.year, d.month + 1, 1)
  ELSE date(d.year + 1, 1, 1)

\* d - timedelta(days=1), d - relativedelta(days=1)
PrevDay(d) ==
  IF d.day > 1 THEN date(d.year, d.month, d.day - 1)
  ELSE IF d.month > 1
       THEN date(d.year, d.month - 1, monthrange(d.year, d.month - 1))
  ELSE date(d.year - 1, 12, 31)

\* d.replace(day=1)
FirstOfMonth(d) == date(d.year, d.month, 1)

month_end(dt) == datetime(dt.year, dt.month, monthrange(dt.year, dt.month))

\* a month counted as completed one day late
MonthsBetweenLate(d1, d2) ==
  LET total == (d2.year - d1.year) * 12 + (d2.month - d1.month)
  IN IF d2.day <= d1.day THEN total - 1 ELSE total

\* months_completed for d1 <= d2
MonthsBetween(d1, d2) ==
  LET total == (d2.year - d1.year) * 12 + (d2.month - d1.month)
  IN IF d2.day < d1.day THEN total - 1 ELSE total

months_completed(d1, d2) ==
  IF toordinal(d2) < toordinal(d1) THEN 0 - MonthsBetween(d2, d1)
  ELSE MonthsBetween(d1, d2)

\* one tonne, one hundredth of a tonne
Tonne == 48 * 100
Cent == Tonne \div 100

\* x * 0.75; every amount the scripts discount is a multiple of 4
ThreeQuarters(x) == (3 * x) \div 4

\* round(x, 2): the multiples of a hundredth nearest to x.  Half-way between
\* two hundredths the float that holds x lies on one side or the other, and
\* round gives the hundredth on that side.
round2(x) ==
  LET lo == (x \div Cent) * Cent
      rem == x - lo
  IN IF 2 * rem < Cent THEN {lo}
     ELSE IF 2 * rem > Cent THEN {lo + Cent}
     ELSE {lo, lo + Cent}

\* int(x) for a float x: the fraction is cut off, towards zero
int(x) == IF x >= 0 THEN (x \div Tonne) * Tonne ELSE 0 - (((0 - x) \div Tonne) * Tonne)

\* cp_at_months, eq16_cp: cbase + (n / 180) * (clt - cbase) * dpp, with dpp
\* 0.75 (PERMANENCE_YEARS is 25 in both scripts), so n / 240 of clt - cbase.
\* cbase and clt hold whole tonnes, which makes the division exact.
cp_at_months(cbase, clt, n_months) ==
  LET lo == IF n_months > 0 THEN n_months ELSE 0
      n == IF lo < 180 THEN lo ELSE 180
  IN cbase + n * ((clt - cbase) \div 240)

(***************************************************************************)
(* Bounds and inputs of the forecast scripts                               *)
(***************************************************************************)
\* the most periods a script with workbook readings is run over
MaxPeriods == 3
\* the most years build_anniversary_periods is asked for
MaxYears == 5

T(k) == k * Tonne

CEA_START == date(2021, 6, 25)

\* The constants the two Schedule 4 scripts are edited to (the last end
\* is MODELLING_END_RP_END in PF_Schedule4_Forecaster.py, the deduction
\* FIRST_YEAR_DEDUCTION there and FIRST_YEAR_DEDUCTION_ISSUED in
\* PF_Sch4_Forecaster.py).  The first reporting period ends 60 completed
\* months after CEA_START, where the stock is cbase + (clt - cbase) / 4.
Sch4Jobs ==
  [script : {"PF_Schedule4_Forecaster", "PF_Sch4_Forecaster"},
   call : {"main"},
   CBASE : {T(0), T(600)},
   CLT : {T(48000), T(0)},
   FIRST_YEAR_DEDUCTION : {T(0), T(12000), T(15000)},
   FIRST_RP_START : {date(2025, 10, 31), date(2025, 7, 1)},
   FIRST_RP_END : {date(2026, 6, 30)},
   LAST_RP_END : {date(2028, 6, 30), date(2026, 6, 30), date(2025, 6, 30)}]

\* generate_rp_schedule(first_start, first_end, last_end), called by itself
ScheduleJobs ==
  [script : {"PF_Sch4_Forecaster"},
   call : {"generate_rp_schedule"},
   CBASE : {T(0)}, CLT : {T(0)}, FIRST_YEAR_DEDUCTION : {T(0)},
   FIRST_RP_START : {date(2025, 10, 31), date(2025, 7, 1), date(2024, 3, 1)},
   FIRST_RP_END : {date(2026, 6, 30), date(2025, 2, 28)},
   LAST_RP_END : {date(2029, 6, 30), date(2026, 6, 30), date(2025, 6, 30),
                  date(2024, 1, 1)}]

Sch4Frame(j) ==
  [pc |-> "schedule", schedule |-> <<>>,
   rp_start |-> j.FIRST_RP_START, rp_end |-> j.FIRST_RP_END,
   i |-> 0, prev_cp |-> None, cum_c_adj |-> 0]

(***************************************************************************)
(* generate_rp_schedule: one turn of the while loop, or the return         *)
(***************************************************************************)
GenerateRpSchedule ==
  /\ job.script \in {"PF_Schedule4_Forecaster", "PF_Sch4_Forecaster"}
  /\ frame.pc = "schedule"
  /\ IF toordinal(frame.rp_end) <= toordinal(job.LAST_RP_END)
     THEN frame' = [frame EXCEPT
                      !.schedule = Append(@, <<frame.rp_start, frame.rp_end>>),
                      !.rp_start = AddYears(@, 1),
                      !.rp_end = AddYears(@, 1)]
     ELSE frame' = [frame EXCEPT
                      !.pc = IF job.call = "main" THEN "loop" ELSE "returned"]
  /\ UNCHANGED <<job, out, exc, pc, error, runs, files, locals, history>>

(***************************************************************************)
(* PF_Schedule4_Forecaster.py: forecast(), one reporting period a step     *)
(***************************************************************************)
\* lines 76-78: the deduction is taken from the raw credit of period 1
AfterFirstDeduction(i, annual_c_raw, deduction) ==
  IF i = 1 /\ deduction # 0 THEN annual_c_raw - deduction ELSE annual_c_raw

Schedule4Forecast ==
  /\ job.script = "PF_Schedule4_Forecaster"
  /\ frame.pc = "loop"
  /\ frame.i < Len(frame.schedule)
  /\ LET i == frame.i + 1
         rp_start == frame.schedule[i][1]
         rp_end == frame.schedule[i][2]
         n == months_completed(CEA_START, rp_end)
         cp_c_raw == cp_at_months(job.CBASE, job.CLT, n)
         annual_c_raw == IF frame.prev_cp = None THEN cp_c_raw
                         ELSE cp_c_raw - frame.prev_cp.n
         annual_after_first_deduction ==
           AfterFirstDeduction(i, annual_c_raw, job.FIRST_YEAR_DEDUCTION)
         annual_c_adj == ThreeQuarters(annual_after_first_deduction)
     IN /\ frame' = [frame EXCEPT !.i = i,
                                  !.cum_c_adj = @ + annual_c_adj,
                                  !.prev_cp = Num(cp_c_raw)]
        /\ out' = Append(out, [rp_index |-> i, rp_start |-> rp_start,
                               rp_end |-> rp_end, n_months |-> n,
                               cp |-> cp_c_raw,
                               delta_cp |-> annual_c_raw,
                               issued |-> annual_c_adj])
  /\ UNCHANGED <<job, exc, pc, error, runs, files, locals, history>>

(***************************************************************************)
(* PF_Sch4_Forecaster.py: forecast(), one reporting period a step          *)
(***************************************************************************)
\* lines 177-181: the discount, then the deduction of period 1
Sch4Issued(i, delta_cp, deduction) ==
  LET issued == ThreeQuarters(delta_cp)
  IN IF i = 1 /\ deduction # 0 THEN issued - deduction ELSE issued

Sch4Forecast ==
  /\ job.script = "PF_Sch4_Forecaster"
  /\ frame.pc = "loop"
  /\ frame.i < Len(frame.schedule)
  /\ LET i == frame.i + 1
         rp_start == frame.schedule[i][1]
         rp_end == frame.schedule[i][2]
         n == months_completed(CEA_START, rp_end)
         cp == cp_at_months(job.CBASE, job.CLT, n)
         delta_cp == IF frame.prev_cp = None THEN cp ELSE cp - frame.prev_cp.n
         issued == Sch4Issued(i, delta_cp, job.FIRST_YEAR_DEDUCTION)
     IN /\ frame' = [frame EXCEPT !.i = i, !.prev_cp = Num(cp)]
        /\ out' = Append(out, [rp_index |-> i, rp_start |-> rp_start,
                               rp_end |-> rp_end, n_months |-> n,
                               cp |-> cp,
                               delta_cp |-> delta_cp,
                               issued |-> issued])
  /\ UNCHANGED <<job, exc, pc, error, runs, files, locals, history>>

(***************************************************************************)
(* main() of either script: write_csv(out, forecast()).  The file gets the *)
(* header row and one row for each result, also when there is none.        *)
(***************************************************************************)
write_csv ==
  /\ job.script \in {"PF_Schedule4_Forecaster", "PF_Sch4_Forecaster"}
  /\ frame.pc = "loop"
  /\ frame.i = Len(frame.schedule)
  /\ frame' = [frame EXCEPT !.pc = "written"]
  /\ UNCHANGED <<job, out, exc, pc, error, runs, files, locals, history>>

(***************************************************************************)
(* Coalara_Calculatorv2.py: the two cells of the script, v1 (lines 1-128)  *)
(* and v2 (lines 130-261).  D30[y] is what Summary!D30 holds after the     *)
(* recalculation of year y, E[y] the sum of column E over the CEA sheets   *)
(* (read by v2 only).                                                      *)
(***************************************************************************)
D30Values == {None, Num(T(1000)), Num(T(3000)), Num(T(4000))}

Readings(S) == UNION {[1..m -> S] : m \in 1..MaxPeriods}

CoalaraJobs ==
  {[script |-> "Coalara_Calculatorv2", version |-> 1, D30 |-> d,
    E |-> [y \in 1..Len(d) |-> 0]] : d \in Readings(D30Values)}
  \cup
  {[script |-> "Coalara_Calculatorv2", version |-> 2, D30 |-> d,
    E |-> [y \in 1..Len(d) |-> e]] :
      d \in Readings(D30Values), e \in {0, T(500)}}

CoalaraFrame(j) ==
  [pc |-> "loop", year_idx |-> 0, accumulated_accu |-> 0,
   row_idx |-> IF j.version = 1 THEN 2 ELSE 3]

\* "net_abatement = 2247.62": the fixed base of year 0
BaseYearNetAbatement == 224762 * Cent

\* lines 89-93, 220-223: the abatement the issuance is computed from
NetAbatement(year_idx, stock, accumulated_accu) ==
  IF year_idx = 0 THEN BaseYearNetAbatement ELSE stock - accumulated_accu

\* lines 96, 226: issued_accu = round(max(0, calc_accu - accumulated_accu), 2)
IssuedAccu(calc_accu, accumulated_accu) ==
  IF calc_accu - accumulated_accu > 0 THEN calc_accu - accumulated_accu ELSE 0

CoalaraYear ==
  /\ job.script = "Coalara_Calculatorv2"
  /\ frame.pc = "loop"
  /\ frame.year_idx < Len(job.D30)
  /\ LET year_idx == frame.year_idx
         current_stock == job.D30[year_idx + 1]
     IN IF current_stock = None
        THEN \* print, row_idx += 12, continue
             /\ frame' = [frame EXCEPT !.year_idx = @ + 1, !.row_idx = @ + 12]
             /\ out' = out
        ELSE LET deduction_total == job.E[year_idx + 1]
                 adjusted_stock == current_stock.n - deduction_total
                 net_abatement ==
                   NetAbatement(year_idx, adjusted_stock, frame.accumulated_accu)
             IN \E calc_accu \in round2(ThreeQuarters(net_abatement)) :
                  LET issued_accu == IssuedAccu(calc_accu, frame.accumulated_accu)
                  IN /\ frame' = [frame EXCEPT
                                    !.year_idx = @ + 1,
                                    !.row_idx = @ + 12,
                                    !.accumulated_accu = @ + issued_accu]
                     /\ out' = Append(out,
                                 [year_idx |-> year_idx,
                                  current_stock |-> current_stock.n,
                                  deduction_total |-> deduction_total,
                                  adjusted_stock |-> adjusted_stock,
                                  net_abatement |-> net_abatement,
                                  calc_accu |-> calc_accu,
                                  issued_accu |-> issued_accu])
  /\ UNCHANGED <<job, exc, pc, error, runs, files, locals, history>>

\* v1 line 117: open(csvOut, 'vw', newline='') raises ValueError, the mode
\* is not one of open's; v2 line 249 opens with 'w' and writes the rows.
CoalaraWrite ==
  /\ job.script = "Coalara_Calculatorv2"
  /\ frame.pc = "loop"
  /\ frame.year_idx = Len(job.D30)
  /\ IF job.version = 1
     THEN /\ frame' = [frame EXCEPT !.pc = "raised"]
          /\ exc' = "ValueError"
     ELSE /\ frame' = [frame EXCEPT !.pc = "written"]
          /\ exc' = exc
  /\ UNCHANGED <<job, out, pc, error, runs, files, locals, history>>

(***************************************************************************)
(* 250423_monthly_forecasts_Blackwood.py: the period loop, lines 51-80.    *)
(* I17[p] is what Abatement!I17 holds after the recalculation of period p. *)
(***************************************************************************)
I17Values == {None, Num(T(1000)), Num(T(3000)), Num(T(4000) + 50 * Cent)}

BlackwoodJobs ==
  {[script |-> "250423_monthly_forecasts_Blackwood", I17 |-> v] :
     v \in Readings(I17Values)}

\* a name no assignment has bound yet
Unbound == [t |-> "unbound", n |-> 0, s |-> ""]

BlackwoodFrame ==
  [pc |-> "loop", i |-> 0, prev_result |-> None,
   newResultInt |-> Unbound, prevResultInt |-> Unbound]

\* lines 75-78: the C_Abatement column of the row
C_Abatement(prev_result, newResultInt, delta) ==
  IF prev_result = None THEN newResultInt ELSE delta

BlackwoodPeriod ==
  /\ job.script = "250423_monthly_forecasts_Blackwood"
  /\ frame.pc = "loop"
  /\ frame.i < Len(job.I17)
  /\ LET newResult == job.I17[frame.i + 1]
         \* lines 62-68: both names are assigned only when there is a result
         newResultInt == IF newResult # None THEN Num(int(newResult.n))
                         ELSE frame.newResultInt
         prevResultInt == IF newResult = None THEN frame.prevResultInt
                          ELSE IF frame.prev_result # None
                               THEN Num(int(frame.prev_result.n))
                          ELSE Num(0)
     IN IF newResultInt = Unbound
        THEN \* line 72 reads newResultInt: NameError
             /\ frame' = [frame EXCEPT !.pc = "raised"]
             /\ exc' = "NameError"
             /\ out' = out
        ELSE LET delta == ThreeQuarters(newResultInt.n - prevResultInt.n)
             IN /\ frame' = [frame EXCEPT !.i = @ + 1,
                                          !.prev_result = newResult,
                                          !.newResultInt = newResultInt,
                                          !.prevResultInt = prevResultInt]
                /\ out' = Append(out,
                            [period |-> frame.i + 1,
                             RAW_extract |-> newResultInt.n,
                             C_Abatement |->
                               C_Abatement(frame.prev_result,
                                           newResultInt.n, delta)])
                /\ exc' = exc
  /\ UNCHANGED <<job, pc, error, runs, files, locals, history>>

(***************************************************************************)
(* PF_Sch1_Forecaster.py                                                   *)
(***************************************************************************)
Sch1Jobs ==
  [script : {"PF_Sch1_Forecaster"}, call : {"run_forecast"},
   PROJECT_START_DATE : {date(2022, 6, 25)},
   HORIZON_YEARS : 1..MaxPeriods]
  \cup
  \* build_anniversary_periods(project_start, years), called by itself
  [script : {"PF_Sch1_Forecaster"}, call : {"build_anniversary_periods"},
   PROJECT_START_DATE : {date(2022, 6, 25), date(2024, 2, 29),
                         date(2023, 12, 31), date(2023, 3, 1)},
   HORIZON_YEARS : 1..MaxYears]

Sch1Frame(j) ==
  [pc |-> "periods", periods |-> <<>>, rp_start |-> j.PROJECT_START_DATE,
   i |-> 0, cum |-> 0, cum_has_value |-> FALSE]

\* build_anniversary_periods: one turn of the for loop, or the return
BuildAnniversaryPeriods ==
  /\ job.script = "PF_Sch1_Forecaster"
  /\ frame.pc = "periods"
  /\ IF Len(frame.periods) < job.HORIZON_YEARS
     THEN LET rp_end == PrevDay(AddYears(frame.rp_start, 1))
          IN frame' = [frame EXCEPT
                         !.periods = Append(@, <<frame.rp_start, rp_end>>),
                         !.rp_start = AddYears(@, 1)]
     ELSE frame' = [frame EXCEPT
                      !.pc = IF job.call = "run_forecast" THEN "loop"
                             ELSE "returned"]
  /\ UNCHANGED <<job, out, exc, pc, error, runs, files, locals, history>>

\* What the workbook yields for one period: whether CEA01!A:A has a date
\* near the period, what Summary!D30 holds after the last recalculation
\* (RECALC_RETRIES + 1 attempts) and what Calculations!A28 holds.
Sch1Readings ==
  {[fc_date |-> FALSE, D30 |-> None, A28 |-> None],
   [fc_date |-> TRUE, D30 |-> None, A28 |-> None],
   [fc_date |-> TRUE, D30 |-> Num(T(1000)), A28 |-> Num(T(9000))],
   [fc_date |-> TRUE, D30 |-> Num(T(3000)), A28 |-> None]}

safe_float(v) == IF v.t = "num" THEN v ELSE None

\* lines 218, 255: cum if cum_has_value else None
CumulativeAccus(cum, cum_has_value) == IF cum_has_value THEN Num(cum) ELSE None

\* run_forecast: one reporting period a step
RunForecast ==
  /\ job.script = "PF_Sch1_Forecaster"
  /\ frame.pc = "loop"
  /\ frame.i < Len(frame.periods)
  /\ \E reading \in Sch1Readings :
       LET i == frame.i + 1
           rp_start == frame.periods[i][1]
           rp_end == frame.periods[i][2]
       IN IF ~reading.fc_date
          THEN /\ frame' = [frame EXCEPT !.i = i]
               /\ out' = Append(out,
                           [rp_index |-> i, rp_start |-> rp_start,
                            rp_end |-> rp_end, fullcam_date_used |-> rp_end,
                            calculated_accus |-> None,
                            cumulative_accus |->
                              CumulativeAccus(frame.cum, frame.cum_has_value),
                            carbon_stock_total |-> None])
          ELSE LET accus == safe_float(reading.D30)
                   carbon_stock == safe_float(reading.A28)
                   cum == IF accus # None THEN frame.cum + accus.n
                          ELSE frame.cum
                   cum_has_value == accus # None \/ frame.cum_has_value
               IN /\ frame' = [frame EXCEPT !.i = i, !.cum = cum,
                                            !.cum_has_value = cum_has_value]
                  /\ out' = Append(out,
                              [rp_index |-> i, rp_start |-> rp_start,
                               rp_end |-> rp_end,
                               fullcam_date_used |-> rp_end,
                               calculated_accus |-> accus,
                               cumulative_accus |->
                                 CumulativeAccus(cum, cum_has_value),
                               carbon_stock_total |-> carbon_stock])
  /\ UNCHANGED <<job, exc, pc, error, runs, files, locals, history>>

\* run_forecast, lines 259-285: the workbook is saved and the CSV written
Sch1WriteCsv ==
  /\ job.script = "PF_Sch1_Forecaster"
  /\ frame.pc = "loop"
  /\ frame.i = Len(frame.periods)
  /\ frame' = [frame EXCEPT !.pc = "written"]
  /\ UNCHANGED <<job, out, exc, pc, error, runs, files, locals, history>>

(***************************************************************************)
(* Ep_Forecast_Engine.py: run_engine(config)                               *)
(***************************************************************************)
\* a // b and a % b of Python, b # 0: the quotient is rounded down
FloorDiv(a, b) == IF b > 0 THEN a \div b ELSE (0 - a) \div (0 - b)
Mod(a, b) == a - b * FloorDiv(a, b)

\* EngineConfig, and the Project Start Date the calculator workbook holds
EngineJobs ==
  \* an explicit number of reporting periods
  [script : {"Ep_Forecast_Engine"},
   starting_rp_number : {1, 4},
   rp_length_months : {12, 6, 0},
   start : {datetime(2024, 7, 1), datetime(2024, 1, 31)},
   forecast_full_lifecycle : {FALSE},
   forecast_number_of_rps : {Num(1), Num(2), Num(3)},
   project_start_date : {datetime(2000, 3, 15)}]
  \cup
  \* the full lifecycle: project start + 25 years is 2025-03-15 or 2025-01-01
  [script : {"Ep_Forecast_Engine"},
   starting_rp_number : {1, 4},
   rp_length_months : {12, 6, 5, 1, 0, 0 - 1, 0 - 5},
   start : {datetime(2024, 7, 1), datetime(2024, 1, 31),
            datetime(2024, 2, 29), datetime(2025, 2, 1),
            datetime(2025, 6, 1)},
   forecast_full_lifecycle : {TRUE},
   forecast_number_of_rps : {None},
   project_start_date : {datetime(2000, 3, 15), datetime(2000, 1, 1)}]

EngineFrame == [pc |-> "setup"]

\* lines 228-230: the last day of the month before project start + 25 years
FinalRpEnd(raw_project_start) ==
  PrevDay(FirstOfMonth(AddYears(raw_project_start, 25)))

\* lines 233, 272-274: whole calendar months from a to b
MonthsTo(a, b) == (b.year - a.year) * 12 + (b.month - a.month)

\* lines 235-237
NRps(months_to_end, rp_len) ==
  IF Mod(months_to_end, rp_len) # 0 THEN FloorDiv(months_to_end, rp_len) + 1
  ELSE FloorDiv(months_to_end, rp_len)

\* lines 218-260: the number of periods, the output workbook with its
\* header row, the first start
RunEngineSetup ==
  /\ job.script = "Ep_Forecast_Engine"
  /\ frame.pc = "setup"
  /\ LET rp_len == job.rp_length_months
         final_rp_end == FinalRpEnd(job.project_start_date)
         current_end == month_end(job.start)
         months_to_end == MonthsTo(current_end, final_rp_end)
     IN IF job.forecast_number_of_rps # None
        THEN /\ frame' = [pc |-> "loop", final_rp_end |-> None,
                          rp_len |-> rp_len,
                          n_rps |-> job.forecast_number_of_rps.n,
                          i |-> 0, current_rp_start |-> job.start,
                          current_rp_end |-> month_end(job.start)]
             /\ exc' = exc
        ELSE IF rp_len = 0
        THEN \* months_to_end // rp_len
             /\ frame' = [pc |-> "raised"]
             /\ exc' = "ZeroDivisionError"
        ELSE /\ frame' = [pc |-> "loop", final_rp_end |-> final_rp_end,
                          rp_len |-> rp_len,
                          n_rps |-> NRps(months_to_end, rp_len),
                          i |-> 0, current_rp_start |-> job.start,
                          current_rp_end |-> month_end(job.start)]
             /\ exc' = exc
  /\ UNCHANGED <<job, out, pc, error, runs, files, locals, history>>

\* lines 265-274: the end of period i and the RP length written to the
\* calculator; the last period takes final_rp_end
NextRpEnd(i, n_rps, current_rp_start, rp_len, final_rp_end) ==
  IF i = n_rps - 1 THEN final_rp_end ELSE AddMonths(current_rp_start, rp_len)

\* the cadence for every period, the last one included
RpLenOfCadence(i, n_rps, current_rp_start, rp_len, final_rp_end) == rp_len

\* lines 271-274
RpLen(i, n_rps, current_rp_start, rp_len, final_rp_end) ==
  IF i = n_rps - 1 THEN MonthsTo(current_rp_start, final_rp_end) ELSE rp_len

\* lines 262-293: one reporting period.  ACCUs Realised of the row is what
\* the workbook calculates from the inputs write_inputs_and_get_accus
\* writes, which the row keeps as rp_length_months.
RunEnginePeriod ==
  /\ job.script = "Ep_Forecast_Engine"
  /\ frame.pc = "loop"
  /\ frame.i < frame.n_rps
  /\ LET i == frame.i
         rp_num == job.starting_rp_number + i
     IN IF i = frame.n_rps - 1 /\ frame.final_rp_end = None
        THEN \* line 272: final_rp_end.year, final_rp_end is None
             /\ frame' = [frame EXCEPT !.pc = "raised"]
             /\ exc' = "AttributeError"
             /\ out' = out
        ELSE LET next_rp_end == NextRpEnd(i, frame.n_rps, frame.current_rp_start,
                                          frame.rp_len, frame.final_rp_end)
                 rp_len == RpLen(i, frame.n_rps, frame.current_rp_start,
                                 frame.rp_len, frame.final_rp_end)
             IN /\ frame' = [frame EXCEPT !.i = @ + 1,
                                          !.rp_len = rp_len,
                                          !.current_rp_start = next_rp_end,
                                          !.current_rp_end = next_rp_end]
                /\ out' = Append(out,
                            [RP |-> rp_num,
                             start |-> frame.current_rp_start,
                             end |-> next_rp_end,
                             rp_length_months |-> rp_len])
                /\ exc' = exc
  /\ UNCHANGED <<job, pc, error, runs, files, locals, history>>

\* lines 295-306: the aggregated workbook is saved, then the calculator
RunEngineSave ==
  /\ job.script = "Ep_Forecast_Engine"
  /\ frame.pc = "loop"
  /\ frame.i >= frame.n_rps
  /\ frame' = [frame EXCEPT !.pc = "saved"]
  /\ UNCHANGED <<job, out, exc, pc, error, runs, files, locals, history>>

(***************************************************************************)
(* EP_Forecast_Runner.py: App._on_run, the Run button                      *)
(***************************************************************************)
\* what the form holds: integers in every number field
RunnerJobs ==
  [script : {"EP_Forecast_Runner"},
   rp_months : {12, 0, 0 - 1},
   start : {date(2024, 7, 1), date(2024, 2, 30)},
   forecast_full_lifecycle : BOOLEAN,
   forecast_num_rps : {0, 2}]

RunnerFrame == [pc |-> "form"]

\* _validate_and_build_config, lines 209-265: "" when the form is accepted
ValidationError(j) ==
  IF j.rp_months <= 0 THEN "RP Length (Months) must be greater than 0."
  ELSE IF ~IsDate(j.start)
  THEN "Start Date is not a valid calendar date (check Y/M/D)."
  ELSE IF ~j.forecast_full_lifecycle /\ j.forecast_num_rps <= 0
  THEN "Forecast Number of RPs must be greater than 0."
  ELSE ""

\* _on_run: an invalid form is reported; a valid one goes to run_process,
\* which builds EngineConfig without its save_raw_output field, a TypeError
\* that _on_run reports in turn.  run_engine is not reached.
OnRun ==
  /\ job.script = "EP_Forecast_Runner"
  /\ frame.pc = "form"
  /\ IF ValidationError(job) # ""
     THEN /\ frame' = [pc |-> "invalid", message |-> ValidationError(job)]
          /\ exc' = "ValueError"
     ELSE /\ frame' = [pc |-> "error", message |-> "Something went wrong"]
          /\ exc' = "TypeError"
  /\ UNCHANGED <<job, out, pc, error, runs, files, locals, history>>

(***************************************************************************)
(* One script runs in a behaviour                                          *)
(***************************************************************************)
ForecastJobs ==
  Sch4Jobs \cup ScheduleJobs \cup CoalaraJobs \cup BlackwoodJobs
    \cup Sch1Jobs \cup EngineJobs \cup RunnerJobs

FrameOf(j) ==
  CASE j.script \in {"PF_Schedule4_Forecaster", "PF_Sch4_Forecaster"} ->
         Sch4Frame(j)
    [] j.script = "Coalara_Calculatorv2" -> CoalaraFrame(j)
    [] j.script = "250423_monthly_forecasts_Blackwood" -> BlackwoodFrame
    [] j.script = "PF_Sch1_Forecaster" -> Sch1Frame(j)
    [] j.script = "Ep_Forecast_Engine" -> EngineFrame
    [] j.script = "EP_Forecast_Runner" -> RunnerFrame

ForecastInit ==
  /\ job \in ForecastJobs
  /\ frame = FrameOf(job)
  /\ out = <<>>
  /\ exc = ""
  \* no reconciliation runs
  /\ pc = "idle"
  /\ error = ""
  /\ runs = 0
  /\ miFile = NoFile
  /\ outFile = NoFile
  /\ deltaFile = NoDelta
  /\ fcFile = NoFile
  /\ pfFile = NoFile
  /\ cfg = [master_inventory_workbook |-> "mi",
            save_master_inventory_output |-> "out"]
  /\ mi0 = NoFile
  /\ out0 = NoFile
  /\ delta0 = NoDelta
  /\ prev = NoPrev
  /\ LocalsInit

ForecastNext ==
  \/ GenerateRpSchedule
  \/ Schedule4Forecast
  \/ Sch4Forecast
  \/ write_csv
  \/ CoalaraYear
  \/ CoalaraWrite
  \/ BlackwoodPeriod
  \/ BuildAnniversaryPeriods
  \/ RunForecast
  \/ Sch1WriteCsv
  \/ RunEngineSetup
  \/ RunEnginePeriod
  \/ RunEngineSave
  \/ OnRun

ForecastSpec == ForecastInit /\ [][ForecastNext]_vars

(***************************************************************************)
(* Properties of the forecast scripts                                      *)
(***************************************************************************)
\* the issued amounts of the records emitted so far, in order
IssuedAmounts ==
  [k \in 1..Len(out) |->
     IF job.script = "Coalara_Calculatorv2" THEN out[k].issued_accu
     ELSE out[k].issued]

\* the cumulative issued amount after the first k records
CumulativeIssued(k) == SumSeq(SubSeq(IssuedAmounts, 1, k))

\* C11: under the flat discount (forecast of PF_Schedule4_Forecaster.py) and
\* under the ratcheted cap (the yearly loop of Coalara_Calculatorv2.py), for
\* every stock trajectory and deduction, the issued amount of every period
\* is at least 0, the running cumulative amount never decreases from one
\* period to the next, and the running total the script keeps is that sum.
C11_IssuedNeverNegative ==
  job.script \in {"PF_Schedule4_Forecaster", "Coalara_Calculatorv2"} =>
    /\ \A k \in 1..Len(out) :
         /\ IssuedAmounts[k] >= 0
         /\ CumulativeIssued(k) >= CumulativeIssued(k - 1)
    /\ job.script = "PF_Schedule4_Forecaster" =>
         frame.cum_c_adj = CumulativeIssued(Len(out))
    /\ job.script = "Coalara_Calculatorv2" =>
         frame.accumulated_accu = CumulativeIssued(Len(out))


\* the scripts that read the stock of a period from a workbook, the
\* periods the running one has gone through, and its readings when the job
\* holds them
ReadsWorkbook ==
  \/ job.script \in {"Coalara_Calculatorv2", "250423_monthly_forecasts_Blackwood"}
  \/ job.script = "PF_Sch1_Forecaster" /\ job.call = "run_forecast"

PeriodsDone ==
  IF job.script = "Coalara_Calculatorv2" THEN frame.year_idx ELSE frame.i

ReadingOf(p) ==
  IF job.script = "Coalara_Calculatorv2" THEN job.D30[p] ELSE job.I17[p]

\* the period of a record, counted from 1
PeriodOf(row) ==
  CASE job.script = "Coalara_Calculatorv2" -> row.year_idx + 1
    [] job.script = "250423_monthly_forecasts_Blackwood" -> row.period
    [] job.script = "PF_Sch1_Forecaster" -> row.rp_index

\* the cumulative amount a record of run_forecast follows
CumulativeBefore(k) == IF k = 1 THEN None ELSE out[k - 1].cumulative_accus

\* C12: a period whose stock reading is missing (None) raises nothing and
\* still gets its record, with a null issued amount and the cumulative amount
\* of the record before; the periods after it are processed, so that there
\* is one record for every period gone through.
C12_MissingReadingKeepsRecord ==
  ReadsWorkbook =>
    /\ exc # "NameError"
    /\ frame.pc = "loop" =>
         \A p \in 1..PeriodsDone : \E k \in 1..Len(out) : PeriodOf(out[k]) = p
    /\ job.script # "PF_Sch1_Forecaster" =>
         \* the rows of these two scripts hold numbers only
         \A k \in 1..Len(out) : ReadingOf(PeriodOf(out[k])) # None
    /\ job.script = "PF_Sch1_Forecaster" =>
         \A k \in 1..Len(out) :
           IF out[k].calculated_accus = None
           THEN out[k].cumulative_accus = CumulativeBefore(k)
           ELSE out[k].cumulative_accus =
                  Num(CumulativeBefore(k).n + out[k].calculated_accus.n)


\* every period of the job has a reading
AllRead == \A p \in 1..Len(job.I17) : job.I17[p] # None

\* the stock a period's delta is taken from: none before the first period
StockBefore(stocks, k) == IF k = 1 THEN 0 ELSE stocks[k - 1]

\* C13: under the flat discount with no deduction configured (forecast of
\* PF_Sch4_Forecaster.py, the period loop of the Blackwood script when every
\* period has a reading), in schedule order, the delta of a period is its
\* stock in the first period and its stock minus the stock of the period
\* before otherwise, the previous stock becomes the current stock after each
\* period, and the issued amount is delta * 0.75 in every period, the first
\* included.
C13_FlatDiscount ==
  /\ (job.script = "PF_Sch4_Forecaster" /\ job.call = "main"
        /\ job.FIRST_YEAR_DEDUCTION = 0) =>
       LET stocks == [k \in 1..Len(out) |-> out[k].cp]
       IN /\ \A k \in 1..Len(out) :
               /\ out[k].delta_cp = stocks[k] - StockBefore(stocks, k)
               /\ out[k].issued = ThreeQuarters(out[k].delta_cp)
          /\ frame.prev_cp = IF out = <<>> THEN None
                             ELSE Num(stocks[Len(out)])
  /\ (job.script = "250423_monthly_forecasts_Blackwood" /\ AllRead) =>
       LET stocks == [k \in 1..Len(out) |-> job.I17[k].n]
       IN /\ \A k \in 1..Len(out) :
               out[k].C_Abatement =
                 ThreeQuarters(stocks[k] - StockBefore(stocks, k))
          /\ frame.prev_result = IF out = <<>> THEN None
                                 ELSE Num(stocks[Len(out)])


\* C14: in the first period the one-off deduction is taken from the delta
\* before the discount, issued = (delta - deduction) * 0.75, in both Schedule
\* 4 scripts; so a first delta equal to the deduction (12000 and 12000 in
\* the example) is issued as 0.
C14_DeductionBeforeDiscount ==
  (job.script \in {"PF_Schedule4_Forecaster", "PF_Sch4_Forecaster"}
     /\ job.call = "main" /\ out # <<>>) =>
    /\ out[1].issued =
         ThreeQuarters(out[1].delta_cp - job.FIRST_YEAR_DEDUCTION)
    /\ out[1].delta_cp = job.FIRST_YEAR_DEDUCTION => out[1].issued = 0


\* every year of the job has a reading
AllYearsRead == \A y \in 1..Len(job.D30) : job.D30[y] # None

\* max(0, x)
Max0(x) == IF x > 0 THEN x ELSE 0

\* C15: under the ratcheted cap (both cells of Coalara_Calculatorv2.py, every
\* year having a reading), the issued amount of every period is
\* max(0, round(delta * 0.75) - cumulative_issued), where delta is the stock
\* of the period minus the stock of the period before (the stock itself in
\* the first period) and cumulative_issued the total issued before it.
C15_RatchetedCap ==
  (job.script = "Coalara_Calculatorv2" /\ AllYearsRead) =>
    LET stocks == [k \in 1..Len(out) |-> out[k].adjusted_stock]
    IN \A k \in 1..Len(out) :
         LET delta == stocks[k] - StockBefore(stocks, k)
         IN \E rounded \in round2(ThreeQuarters(delta)) :
              out[k].issued_accu = Max0(rounded - CumulativeIssued(k - 1))


\* the (start, end) pairs of the schedule the running scheduler has produced
ScheduleOf ==
  CASE job.script \in {"PF_Schedule4_Forecaster", "PF_Sch4_Forecaster"} ->
         frame.schedule
    [] job.script = "PF_Sch1_Forecaster" -> frame.periods
    [] job.script = "Ep_Forecast_Engine" ->
         [k \in 1..Len(out) |-> <<out[k].start, out[k].end>>]
    [] OTHER -> <<>>

\* C16: in every schedule of build_anniversary_periods, of
\* generate_rp_schedule (whatever first_start, first_end and last_end) and of
\* the period loop of run_engine, the starts increase strictly, no two
\* periods share a day, and each period starts the day after the one before
\* ends: period[i].end + 1 day = period[i+1].start.
C16_ContiguousSchedule ==
  LET s == ScheduleOf
  IN \A i \in 1..Len(s) - 1 :
       /\ toordinal(s[i][1]) < toordinal(s[i + 1][1])
       /\ toordinal(s[i][2]) < toordinal(s[i + 1][1])
       /\ NextDay(s[i][2]) = s[i + 1][1]


CountMode ==
  job.script = "Ep_Forecast_Engine" /\ job.forecast_number_of_rps # None

\* C17: with an explicit number n >= 1 of reporting periods run_engine goes
\* through exactly n periods and never raises, the rows carry the RP numbers
\* starting_rp_number .. starting_rp_number + n - 1 in order, and the run
\* that has gone through its periods has n rows to save.
C17_CountTakesPrecedence ==
  (CountMode /\ job.rp_length_months > 0) =>
    /\ exc = ""
    /\ frame.pc # "setup" => frame.n_rps = job.forecast_number_of_rps.n
    /\ Len(out) <= job.forecast_number_of_rps.n
    /\ \A k \in 1..Len(out) : out[k].RP = job.starting_rp_number + k - 1
    /\ frame.pc = "saved" => Len(out) = job.forecast_number_of_rps.n


FullLifecycle ==
  job.script = "Ep_Forecast_Engine" /\ job.forecast_number_of_rps = None

\* the horizon of a full-lifecycle run: the last day of the month before
\* project start + 25 years
HorizonEnd == PrevDay(FirstOfMonth(AddYears(job.project_start_date, 25)))

\* whole calendar months from the month of the start to the month of the
\* horizon end
MonthsToHorizon ==
  (HorizonEnd.year * 12 + HorizonEnd.month)
    - (job.start.year * 12 + job.start.month)

\* ceil(a / b), b > 0
Ceil(a, b) == (a + b - 1) \div b

RpLengths == [k \in 1..Len(out) |-> out[k].rp_length_months]

\* C18: in full-lifecycle mode, for a cadence of at least one month and a
\* horizon end after the start, run_engine goes through
\* ceil(months_to_horizon / cadence) periods; every period but the last
\* ends cadence months after it starts and passes the cadence to the
\* calculator as RP length; the last period ends on the horizon end and
\* passes its own length in months, which is between 1 and the cadence; the
\* lengths passed add up to months_to_horizon, and the run saves that many
\* rows without raising.
C18_FullLifecycleSchedule ==
  (FullLifecycle /\ job.rp_length_months >= 1
     /\ toordinal(HorizonEnd) > toordinal(job.start)
     /\ frame.pc # "setup") =>
    LET cadence == job.rp_length_months
        n == Ceil(MonthsToHorizon, cadence)
    IN /\ exc = ""
       /\ frame.n_rps = n
       /\ Len(out) <= n
       /\ \A k \in 1..Len(out) :
            k < n => /\ out[k].end = AddMonths(out[k].start, cadence)
                     /\ out[k].rp_length_months = cadence
       /\ (Len(out) = n /\ n >= 1) =>
            /\ out[n].end = HorizonEnd
            /\ out[n].rp_length_months \in 1..cadence
            /\ out[n].rp_length_months =
                 (out[n].end.year * 12 + out[n].end.month)
                   - (out[n].start.year * 12 + out[n].start.month)
            /\ SumSeq(RpLengths) = MonthsToHorizon
       /\ frame.pc = "saved" => Len(out) = n

\* a full-lifecycle run has saved two periods or more, the last one shorter
\* than the cadence
C18_Witness ==
  /\ FullLifecycle
  /\ job.rp_length_months >= 1
  /\ toordinal(HorizonEnd) > toordinal(job.start)
  /\ frame.pc = "saved"
  /\ Len(out) >= 2
  /\ out[Len(out)].rp_length_months < job.rp_length_months
  /\ out[Len(out)].end = HorizonEnd


\* the horizon end precedes the anchor, or the cadence is not positive
InvalidSchedule ==
  \/ /\ job.script = "Ep_Forecast_Engine"
     /\ \/ job.rp_length_months <= 0
        \/ FullLifecycle /\ toordinal(HorizonEnd) < toordinal(job.start)
  \/ /\ job.script \in {"PF_Schedule4_Forecaster", "PF_Sch4_Forecaster"}
     /\ toordinal(job.LAST_RP_END) < toordinal(job.FIRST_RP_START)
  \/ job.script = "EP_Forecast_Runner" /\ job.rp_months <= 0

Started == frame # FrameOf(job)

\* C19: when the horizon end precedes the anchor or the cadence is not
\* positive, the first step of schedule generation raises, no period is put
\* on the schedule, no row is produced and no output file is saved or
\* written.
C19_InvalidScheduleFails ==
  InvalidSchedule =>
    /\ Started => exc # ""
    /\ out = <<>>
    /\ "schedule" \in DOMAIN frame => frame.schedule = <<>>
    /\ frame.pc \notin {"returned", "saved", "written"}


\* C20: period k that build_anniversary_periods produces starts k - 1 years
\* after the anchor and ends the day before k years after the anchor, both
\* offsets taken from the anchor itself, for every anchor, a leap day
\* included.
C20_AnniversaryFromAnchor ==
  job.script = "PF_Sch1_Forecaster" =>
    \A k \in 1..Len(frame.periods) :
      /\ frame.periods[k][1] = AddYears(job.PROJECT_START_DATE, k - 1)
      /\ frame.periods[k][2] = PrevDay(AddYears(job.PROJECT_START_DATE, k))


(***************************************************************************)
(* The pure functions of the forecast scripts, called the way their main   *)
(* programs call them: n = months_completed(anchor, t), then the stock     *)
(* cp_at_months(CBASE, CLT, n, dpp) (eq16_cp in PF_Sch4_Forecaster.py).    *)
(* A behaviour of FunctionSpec makes the calls for one anchor and two      *)
(* dates.                                                                  *)
(***************************************************************************)
Anchors ==
  {CEA_START, date(2024, 1, 31), date(2024, 2, 29), date(2023, 3, 15)}

Dates ==
  Anchors \cup
  {date(2019, 2, 28), date(2020, 12, 31), date(2021, 6, 24),
   date(2024, 2, 28), date(2024, 3, 1), date(2024, 3, 30), date(2024, 3, 31),
   date(2026, 6, 24), date(2026, 6, 25), date(2026, 6, 30),
   date(2036, 6, 24), date(2036, 6, 25), date(2039, 1, 31),
   date(2039, 2, 28), date(2039, 3, 1), date(2040, 1, 1)}

StockJobs ==
  [script : {"PF_Schedule4_Forecaster", "PF_Sch4_Forecaster"},
   call : {"cp_at_months"},
   anchor : Anchors,
   t1 : Dates,
   t2 : Dates,
   CBASE : {T(0), T(600)},
   CLT : {T(48000), T(0)}]

StockFrame == [pc |-> "months"]

\* n = months_completed(anchor, t) for both dates, and the call with the
\* arguments exchanged
CallMonthsCompleted ==
  /\ job.script \in {"PF_Schedule4_Forecaster", "PF_Sch4_Forecaster"}
  /\ frame.pc = "months"
  /\ frame' = [pc |-> "stock",
               n1 |-> months_completed(job.anchor, job.t1),
               n2 |-> months_completed(job.anchor, job.t2),
               back1 |-> months_completed(job.t1, job.anchor)]
  /\ UNCHANGED <<job, out, exc, pc, error, runs, files, locals, history>>

\* the stock at both dates
CallCpAtMonths ==
  /\ job.script \in {"PF_Schedule4_Forecaster", "PF_Sch4_Forecaster"}
  /\ frame.pc = "stock"
  /\ out' = <<cp_at_months(job.CBASE, job.CLT, frame.n1),
              cp_at_months(job.CBASE, job.CLT, frame.n2)>>
  /\ frame' = [frame EXCEPT !.pc = "returned"]
  /\ UNCHANGED <<job, exc, pc, error, runs, files, locals, history>>


(***************************************************************************)
(* PF_Sch1_Forecaster.py: find_nearest_fullcam_date                        *)
(***************************************************************************)
MaxDates == 3

FULLCAM_TOLERANCE_DAYS == 5

FullcamDates ==
  {date(2023, 6, 18), date(2023, 6, 19), date(2023, 6, 22), date(2023, 6, 24),
   date(2023, 6, 26), date(2023, 6, 29), date(2023, 6, 30), date(2023, 7, 1)}

NearestJobs ==
  [script : {"PF_Sch1_Forecaster"},
   call : {"find_nearest_fullcam_date"},
   fullcam_dates : UNION {[1..n -> FullcamDates] : n \in 0..MaxDates},
   target : {date(2023, 6, 24), date(2023, 6, 30)},
   tolerance_days : {FULLCAM_TOLERANCE_DAYS, 0}]

NearestFrame == [pc |-> "call"]

\* abs((d - target).days)
DaysApart(d, target) ==
  IF toordinal(d) >= toordinal(target)
  THEN toordinal(d) - toordinal(target)
  ELSE toordinal(target) - toordinal(d)

\* a later date that is as near replaces the best one
NearerOrAsNear(diff, best, best_abs) == best = None \/ diff <= best_abs

\* line 138: if best is None or diff < best_abs
Nearer(diff, best, best_abs) == best = None \/ diff < best_abs

\* lines 135-140: the loop from element k on
RECURSIVE NearestFrom(_, _, _, _, _, _)
NearestFrom(fullcam_dates, k, target, tolerance_days, best, best_abs) ==
  IF k > Len(fullcam_dates) THEN best
  ELSE LET d == fullcam_dates[k]
           diff == DaysApart(d, target)
       IN IF diff <= tolerance_days /\ Nearer(diff, best, best_abs)
          THEN NearestFrom(fullcam_dates, k + 1, target, tolerance_days,
                           d, diff)
          ELSE NearestFrom(fullcam_dates, k + 1, target, tolerance_days,
                           best, best_abs)

find_nearest_fullcam_date(fullcam_dates, target, tolerance_days) ==
  IF fullcam_dates = <<>> THEN None
  ELSE IF \E k \in 1..Len(fullcam_dates) : fullcam_dates[k] = target
  THEN target
  ELSE NearestFrom(fullcam_dates, 1, target, tolerance_days, None, 0)

CallFindNearest ==
  /\ job.script = "PF_Sch1_Forecaster"
  /\ job.call = "find_nearest_fullcam_date"
  /\ frame.pc = "call"
  /\ frame' = [pc |-> "returned",
               result |-> find_nearest_fullcam_date(job.fullcam_dates,
                            job.target, job.tolerance_days)]
  /\ UNCHANGED <<job, out, exc, pc, error, runs, files, locals, history>>


\* the reconciliation engine does not run
NoReconciliation ==
  /\ pc = "idle"
  /\ error = ""
  /\ runs = 0
  /\ miFile = NoFile
  /\ outFile = NoFile
  /\ deltaFile = NoDelta
  /\ fcFile = NoFile
  /\ pfFile = NoFile
  /\ cfg = [master_inventory_workbook |-> "mi",
            save_master_inventory_output |-> "out"]
  /\ mi0 = NoFile
  /\ out0 = NoFile
  /\ delta0 = NoDelta
  /\ prev = NoPrev
  /\ LocalsInit

FunctionInit ==
  /\ job \in StockJobs \cup NearestJobs
  /\ frame = IF job.call = "cp_at_months" THEN StockFrame ELSE NearestFrame
  /\ out = <<>>
  /\ exc = ""
  /\ NoReconciliation

FunctionNext ==
  \/ CallMonthsCompleted
  \/ CallCpAtMonths
  \/ CallFindNearest

FunctionSpec == FunctionInit /\ [][FunctionNext]_vars


Called == job.call = "cp_at_months" /\ frame.pc \in {"stock", "returned"}

FullStock == job.CBASE + ThreeQuarters(job.CLT - job.CBASE)

\* C22: the stock at the anchor and at every date before it is the base; at
\* the anchor + 180 months and at every later date it is base + (target -
\* base) * permanence_factor; and when target >= base the stock at t1 is at
\* most the stock at t2 for t1 <= t2.
C22_StockClamped ==
  (job.call = "cp_at_months" /\ frame.pc = "returned") =>
    /\ toordinal(job.t1) <= toordinal(job.anchor) => out[1] = job.CBASE
    /\ toordinal(job.t1) >= toordinal(AddMonths(job.anchor, 180)) =>
         out[1] = FullStock
    /\ (job.CLT >= job.CBASE /\ toordinal(job.t1) <= toordinal(job.t2)) =>
         out[1] <= out[2]


(***************************************************************************)
(* Runs that fail.  run_engine from its try block on (line 216): opening   *)
(* the workbook and the label check of ForecastEngineXL, a call to Excel   *)
(* that raises inside a period, and the finally block.  run_forecast of    *)
(* PF_Sch1_Forecaster.py with a call to Excel that raises inside a period. *)
(***************************************************************************)
\* lines 218-219: app.books.open(...) and ForecastEngineXL(book) return, or
\* the workbook does not open, or a label is missing (line 76)
RunEngineOpen ==
  /\ job.script = "Ep_Forecast_Engine"
  /\ frame.pc = "open"
  /\ \E outcome \in {"", "FileNotFoundError", "ValueError"} :
       /\ frame' = IF outcome = "" THEN EngineFrame ELSE [pc |-> "raised"]
       /\ exc' = outcome
  /\ UNCHANGED <<job, out, pc, error, runs, files, locals, history>>

\* lines 276-280: write_inputs_and_get_accus raises, Excel refuses a call
RunEnginePeriodFails ==
  /\ job.script = "Ep_Forecast_Engine"
  /\ frame.pc = "loop"
  /\ frame.i < frame.n_rps
  /\ frame' = [frame EXCEPT !.pc = "raised"]
  /\ exc' = "com_error"
  /\ UNCHANGED <<job, out, pc, error, runs, files, locals, history>>

\* "except Exception": the exceptions the handler does not catch
NotSwallowed(e) == FALSE

\* "except Exception": the exceptions the handler catches
Swallowed(e) == e \notin {"KeyboardInterrupt", "SystemExit"}

\* line 311: app.calculation = calc_mode_prev; the assignment of
\* calc_mode_prev is commented out (line 213)
RestoreCalculation == "NameError"

\* lines 308-314: the finally block, after the save or after an exception
RunEngineFinally ==
  /\ job.script = "Ep_Forecast_Engine"
  /\ frame.pc \in {"raised", "saved"}
  /\ IF Swallowed(RestoreCalculation)
     THEN /\ frame' = [pc |-> "exited", quits |-> 1] @@ frame
          /\ exc' = exc
     ELSE /\ frame' = [pc |-> "exited", quits |-> 0] @@ frame
          /\ exc' = RestoreCalculation
  /\ UNCHANGED <<job, out, pc, error, runs, files, locals, history>>

\* run_forecast, lines 222-242: write_date_cell or calculate_full_rebuild
\* raises; the with block closes Excel and the exception leaves run_forecast
RunForecastFails ==
  /\ job.script = "PF_Sch1_Forecaster"
  /\ frame.pc = "loop"
  /\ frame.i < Len(frame.periods)
  /\ frame' = [frame EXCEPT !.pc = "raised"]
  /\ exc' = "com_error"
  /\ UNCHANGED <<job, out, pc, error, runs, files, locals, history>>


(***************************************************************************)
(* The yearly loops that step through the rows of a FullCAM sheet.         *)
(***************************************************************************)
\* what one period finds: the date cell of column A, parseable or not, and
\* Summary!D30 after the recalculation
PeriodCells ==
  {[A |-> TRUE, D30 |-> Num(T(1000))], [A |-> TRUE, D30 |-> Num(T(3000))],
   [A |-> TRUE, D30 |-> None], [A |-> FALSE, D30 |-> None]}

(***************************************************************************)
(* ss_CoalaraCalc_OG.py                                                    *)
(***************************************************************************)
OGJobs ==
  {[script |-> "ss_CoalaraCalc_OG", cells |-> c] : c \in Readings(PeriodCells)}

OGFrame == [pc |-> "start", i |-> 0, x |-> 51, prev_result |-> None,
            read |-> <<>>]

\* lines 32-52: the CSV file is opened and gets its header row, then Excel
\* opens the workbook and the sheets are looked up; an exception here goes
\* to the handler of line 112
OGOpen ==
  /\ job.script = "ss_CoalaraCalc_OG"
  /\ frame.pc = "start"
  /\ \E outcome \in {"", "com_error", "KeyError"} :
       /\ frame' = [frame EXCEPT !.pc = IF outcome = "" THEN "loop"
                                        ELSE "raised"]
       /\ exc' = outcome
  /\ UNCHANGED <<job, out, pc, error, runs, files, locals, history>>

\* line 101: delta if prev_result else newResultInt
OGAbatement(prev_result, newResultInt, delta) ==
  IF prev_result = None \/ prev_result.n = 0 THEN newResultInt ELSE delta

\* lines 54-106: one period
OGPeriod ==
  /\ job.script = "ss_CoalaraCalc_OG"
  /\ frame.pc = "loop"
  /\ frame.i < Len(job.cells)
  /\ LET cell == job.cells[frame.i + 1]
         read == Append(frame.read, frame.x)
     IN IF ~cell.A
        THEN \* line 70: strptime raises, caught at line 104
             /\ frame' = [frame EXCEPT !.i = @ + 1, !.x = @ + 12,
                                       !.read = read]
             /\ out' = out
        ELSE IF cell.D30 = None
        THEN \* lines 85-88: x += 1, continue
             /\ frame' = [frame EXCEPT !.i = @ + 1, !.x = @ + 1,
                                       !.read = read]
             /\ out' = out
        ELSE LET newResultInt == int(cell.D30.n)
                 prevResultInt == IF frame.prev_result # None
                                  THEN int(frame.prev_result.n) ELSE 0
                 delta == newResultInt - prevResultInt
             IN /\ frame' = [frame EXCEPT !.i = @ + 1, !.x = @ + 12,
                                          !.read = read,
                                          !.prev_result = cell.D30]
                /\ out' = Append(out,
                            [period |-> frame.i + 1,
                             RAW_extract |-> newResultInt,
                             C_Abatement |->
                               OGAbatement(frame.prev_result,
                                           newResultInt, delta)])
  /\ UNCHANGED <<job, exc, pc, error, runs, files, locals, history>>

\* lines 108-110: the with block ends and closes the CSV file
OGClose ==
  /\ job.script = "ss_CoalaraCalc_OG"
  /\ frame.pc = "loop"
  /\ frame.i = Len(job.cells)
  /\ frame' = [frame EXCEPT !.pc = "written"]
  /\ UNCHANGED <<job, out, exc, pc, error, runs, files, locals, history>>

(***************************************************************************)
(* accu_forecast_runner.py: run_forecast                                   *)
(***************************************************************************)
AccuRunnerJobs ==
  {[script |-> "accu_forecast_runner", horizon_years |-> Len(c),
    cells |-> c] : c \in Readings(PeriodCells)}

AccuRunnerFrame ==
  [pc |-> "start", i |-> 0, prev_cum |-> None, cea_row |-> 51,
   accu_row |-> 4, read |-> <<>>]

\* lines 47-58: ensure_datetime raises ValueError for an empty cell and for
\* text in none of its formats
ensure_datetime(cell) == IF cell.A THEN "" ELSE "ValueError"

\* lines 68-73: float(val), 0.0 for an empty cell
get_d30_cumulative(cell) == IF cell.D30 = None THEN 0 ELSE cell.D30.n

\* lines 98-128: the first date of CEA01 is read and the CSV file is opened
\* and gets its header row
AccuRunnerOpen ==
  /\ job.script = "accu_forecast_runner"
  /\ frame.pc = "start"
  /\ IF ensure_datetime(job.cells[1]) # ""
     THEN /\ frame' = [frame EXCEPT !.pc = "raised"]
          /\ exc' = ensure_datetime(job.cells[1])
     ELSE /\ frame' = [frame EXCEPT !.pc = "loop"]
          /\ exc' = exc
  /\ UNCHANGED <<job, out, pc, error, runs, files, locals, history>>

\* lines 130-169: one period; its row goes to the CSV file at once
AccuRunnerPeriod ==
  /\ job.script = "accu_forecast_runner"
  /\ frame.pc = "loop"
  /\ frame.i < job.horizon_years
  /\ LET cell == job.cells[frame.i + 1]
         read == Append(frame.read, frame.cea_row)
     IN IF ensure_datetime(cell) # ""
        THEN /\ frame' = [frame EXCEPT !.pc = "raised", !.read = read]
             /\ exc' = ensure_datetime(cell)
             /\ out' = out
        ELSE LET d30_cum == get_d30_cumulative(cell)
                 net_abatement == IF frame.prev_cum # None
                                  THEN d30_cum - frame.prev_cum.n
                                  ELSE d30_cum
             IN /\ frame' = [frame EXCEPT !.i = @ + 1,
                                          !.prev_cum = Num(d30_cum),
                                          !.cea_row = @ + 12,
                                          !.accu_row = @ + 1,
                                          !.read = read]
                /\ out' = Append(out,
                            [period |-> frame.i + 1,
                             d30_cum |-> d30_cum,
                             net_abatement |-> net_abatement,
                             calc_accu |-> net_abatement])
                /\ exc' = exc
  /\ UNCHANGED <<job, pc, error, runs, files, locals, history>>

\* lines 170-172: the CSV file is closed, the workbook saved
AccuRunnerSave ==
  /\ job.script = "accu_forecast_runner"
  /\ frame.pc = "loop"
  /\ frame.i = job.horizon_years
  /\ frame' = [frame EXCEPT !.pc = "written"]
  /\ UNCHANGED <<job, out, exc, pc, error, runs, files, locals, history>>

(***************************************************************************)
(* 250423_monthly_forecasts_Dogwood.py.  Its amounts are integers in       *)
(* millionths of a tonne, which holds the constants of line 126.           *)
(***************************************************************************)
Micro == 1000 * 1000

\* newResult of a period (line 109), None when one of the cells of lines
\* 77-105 is empty: the sum of line 80, 85, ... raises TypeError
DogwoodValues ==
  {None, Num(1000 * Micro + 500000), Num(1500 * Micro + 250000)}

DogwoodJobs ==
  {[script |-> "250423_monthly_forecasts_Dogwood", newResult |-> c] :
     c \in Readings(DogwoodValues)}

DogwoodFrame ==
  [pc |-> "start", i |-> 0, x |-> 91 - 24, x2 |-> 90 - 24, y |-> 129 - 24,
   z |-> 146 - 24, prev_result |-> None, read |-> <<>>]

\* lines 37-70: the CSV file is opened and gets its header row, then Excel
\* opens the workbook and the sheets are looked up
DogwoodOpen ==
  /\ job.script = "250423_monthly_forecasts_Dogwood"
  /\ frame.pc = "start"
  /\ \E outcome \in {"", "com_error", "KeyError"} :
       /\ frame' = [frame EXCEPT !.pc = IF outcome = "" THEN "loop"
                                        ELSE "raised"]
       /\ exc' = outcome
  /\ UNCHANGED <<job, out, pc, error, runs, files, locals, history>>

\* int(x) of a float x in millionths
IntMicro(x) == (x \div Micro) * Micro

\* lines 126-127: (newResultInt - prevResultInt - 3.891384 - 1.42 - 25.30)
\* * 0.75
DogwoodDelta(newResultInt, prevResultInt) ==
  (3 * (newResultInt - prevResultInt - 3891384 - 1420000 - 25300000)) \div 4

\* lines 72-138: one period
DogwoodPeriod ==
  /\ job.script = "250423_monthly_forecasts_Dogwood"
  /\ frame.pc = "loop"
  /\ frame.i < Len(job.newResult)
  /\ LET newResult == job.newResult[frame.i + 1]
         read == Append(frame.read, <<frame.x, frame.x2, frame.y, frame.z>>)
         advanced == [frame EXCEPT !.i = @ + 1, !.x = @ + 12, !.x2 = @ + 12,
                                   !.y = @ + 12, !.z = @ + 12, !.read = read]
     IN IF newResult = None
        THEN \* TypeError, caught at line 133
             /\ frame' = advanced
             /\ out' = out
        ELSE LET newResultInt == IntMicro(newResult.n)
                 prevResultInt == IF frame.prev_result # None
                                  THEN IntMicro(frame.prev_result.n) ELSE 0
                 delta == DogwoodDelta(newResultInt, prevResultInt)
             IN /\ frame' = [advanced EXCEPT !.prev_result = newResult]
                /\ out' = Append(out,
                            [period |-> frame.i + 1,
                             RAW_extract |-> newResultInt,
                             C_Abatement |->
                               OGAbatement(frame.prev_result,
                                           newResultInt, delta)])
  /\ UNCHANGED <<job, exc, pc, error, runs, files, locals, history>>

\* lines 140-142
DogwoodClose ==
  /\ job.script = "250423_monthly_forecasts_Dogwood"
  /\ frame.pc = "loop"
  /\ frame.i = Len(job.newResult)
  /\ frame' = [frame EXCEPT !.pc = "written"]
  /\ UNCHANGED <<job, out, exc, pc, error, runs, files, locals, history>>

(***************************************************************************)
(* Coalara_Calculatorv2.py: a year whose exception is caught               *)
(***************************************************************************)
\* v1 lines 69-71 and 111-114, v2 lines 191-193 and 243-246: the date cell
\* of CEA01 does not parse, the handler prints, row_idx += 12
CoalaraYearError ==
  /\ job.script = "Coalara_Calculatorv2"
  /\ frame.pc = "loop"
  /\ frame.year_idx < Len(job.D30)
  /\ frame' = [frame EXCEPT !.year_idx = @ + 1, !.row_idx = @ + 12]
  /\ UNCHANGED <<job, out, exc, pc, error, runs, files, locals, history>>


(***************************************************************************)
(* PF_Sch1_Forecaster.py: run_forecast with the recalculation attempts of  *)
(* a period as steps.  fc_date[k] says whether CEA01 has a date near       *)
(* period k, D30[k][a] is what Summary!D30 holds after the recalculation   *)
(* of attempt a of period k.                                               *)
(***************************************************************************)
MaxRetryPeriods == 2

RECALC_RETRIES == 2

RetryJobs ==
  UNION {[script : {"PF_Sch1_Forecaster"}, call : {"run_forecast"},
          PROJECT_START_DATE : {date(2022, 6, 25)},
          HORIZON_YEARS : {n},
          fc_date : [1..n -> BOOLEAN],
          D30 : [1..n -> [1..(RECALC_RETRIES + 1) ->
                            {None, Num(T(1000))}]]] :
         n \in 1..MaxRetryPeriods}

\* reads counts the reads of Summary!D30, tries keeps the number of attempts
\* of each period that recalculated
RetryFrame(j) ==
  [attempt |-> 0, accus |-> None, in_period |-> FALSE, reads |-> 0,
   tries |-> <<>>] @@ Sch1Frame(j)

\* lines 198-226: the FullCAM date of the period; without one the period
\* gets its row at once, else the inputs are written
RunForecastFindDate ==
  /\ job.script = "PF_Sch1_Forecaster"
  /\ frame.pc = "loop"
  /\ ~frame.in_period
  /\ frame.i < Len(frame.periods)
  /\ LET i == frame.i + 1
     IN IF ~job.fc_date[i]
        THEN /\ frame' = [frame EXCEPT !.i = i, !.tries = Append(@, 0)]
             /\ out' = Append(out,
                         [rp_index |-> i, rp_start |-> frame.periods[i][1],
                          rp_end |-> frame.periods[i][2],
                          calculated_accus |-> None,
                          cumulative_accus |->
                            CumulativeAccus(frame.cum, frame.cum_has_value)])
        ELSE /\ frame' = [frame EXCEPT !.in_period = TRUE, !.attempt = 0,
                                       !.accus = None]
             /\ out' = out
  /\ UNCHANGED <<job, exc, pc, error, runs, files, locals, history>>

\* the loop goes on whatever was read
NeverBreak(accus) == FALSE

\* lines 241-242: if accus is not None: break
Break(accus) == accus # None

\* line 232: for _attempt in range(RECALC_RETRIES + 1), left by the break
AttemptsLeft(attempt, accus) ==
  attempt < RECALC_RETRIES + 1 /\ ~(attempt > 0 /\ Break(accus))

\* lines 232-242: one attempt, a full rebuild and a read of Summary!D30
RecalcAttempt ==
  /\ job.script = "PF_Sch1_Forecaster"
  /\ frame.pc = "loop"
  /\ frame.in_period
  /\ AttemptsLeft(frame.attempt, frame.accus)
  /\ frame' = [frame EXCEPT
                 !.attempt = @ + 1,
                 !.accus = safe_float(job.D30[frame.i + 1][frame.attempt + 1]),
                 !.reads = @ + 1]
  /\ UNCHANGED <<job, out, exc, pc, error, runs, files, locals, history>>

\* lines 244-257: after the attempts, the cumulative total and the row
RunForecastRow ==
  /\ job.script = "PF_Sch1_Forecaster"
  /\ frame.pc = "loop"
  /\ frame.in_period
  /\ ~AttemptsLeft(frame.attempt, frame.accus)
  /\ LET i == frame.i + 1
         accus == frame.accus
         cum == IF accus # None THEN frame.cum + accus.n ELSE frame.cum
         cum_has_value == accus # None \/ frame.cum_has_value
     IN /\ frame' = [frame EXCEPT !.i = i, !.cum = cum,
                                  !.cum_has_value = cum_has_value,
                                  !.in_period = FALSE,
                                  !.tries = Append(@, frame.attempt)]
        /\ out' = Append(out,
                    [rp_index |-> i, rp_start |-> frame.periods[i][1],
                     rp_end |-> frame.periods[i][2],
                     calculated_accus |-> accus,
                     cumulative_accus |-> CumulativeAccus(cum, cum_has_value)])
  /\ UNCHANGED <<job, exc, pc, error, runs, files, locals, history>>

RetryInit ==
  /\ job \in RetryJobs
  /\ frame = RetryFrame(job)
  /\ out = <<>>
  /\ exc = ""
  /\ NoReconciliation

RetryNext ==
  \/ BuildAnniversaryPeriods
  \/ RunForecastFindDate
  \/ RecalcAttempt
  \/ RunForecastRow
  \/ Sch1WriteCsv

\* run_forecast is one thread and every call to Excel returns: a step that
\* can be taken is taken
RetrySpec == RetryInit /\ [][RetryNext]_vars /\ WF_vars(RetryNext)


AbortJobs ==
  EngineJobs \cup {j \in Sch1Jobs : j.call = "run_forecast"}
    \cup OGJobs \cup AccuRunnerJobs \cup DogwoodJobs \cup CoalaraJobs

AbortFrame(j) ==
  CASE j.script = "Ep_Forecast_Engine" -> [pc |-> "open"]
    [] j.script = "ss_CoalaraCalc_OG" -> OGFrame
    [] j.script = "accu_forecast_runner" -> AccuRunnerFrame
    [] j.script = "250423_monthly_forecasts_Dogwood" -> DogwoodFrame
    [] OTHER -> FrameOf(j)

AbortInit ==
  /\ job \in AbortJobs
  /\ frame = AbortFrame(job)
  /\ out = <<>>
  /\ exc = ""
  /\ NoReconciliation

AbortNext ==
  \/ RunEngineOpen
  \/ RunEngineSetup
  \/ RunEnginePeriod
  \/ RunEnginePeriodFails
  \/ RunEngineSave
  \/ RunEngineFinally
  \/ BuildAnniversaryPeriods
  \/ RunForecast
  \/ RunForecastFails
  \/ Sch1WriteCsv
  \/ OGOpen
  \/ OGPeriod
  \/ OGClose
  \/ AccuRunnerOpen
  \/ AccuRunnerPeriod
  \/ AccuRunnerSave
  \/ DogwoodOpen
  \/ DogwoodPeriod
  \/ DogwoodClose
  \/ CoalaraYear
  \/ CoalaraYearError
  \/ CoalaraWrite

AbortSpec == AbortInit /\ [][AbortNext]_vars


\* a call raised while a period was processed and the run has stopped
FailedInPeriod ==
  /\ exc # ""
  /\ frame.pc \in {"raised", "exited"}
  /\ "i" \in DOMAIN frame
  /\ "read" \in DOMAIN frame => frame.read # <<>>

\* whether the output file of the run exists: the aggregated workbook
\* that out_book.save wrote, the CSV file (ss_CoalaraCalc_OG.py,
\* accu_forecast_runner.py and the Dogwood script open it before the loop
\* and write each row at once)
OutputExists ==
  CASE job.script = "accu_forecast_runner" ->
         \/ frame.pc \in {"loop", "written"}
         \/ frame.pc = "raised" /\ frame.read # <<>>
    [] job.script \in {"ss_CoalaraCalc_OG",
                       "250423_monthly_forecasts_Dogwood"} ->
         frame.pc # "start"
    [] OTHER ->
         \/ frame.pc \in {"saved", "written"}
         \/ frame.pc = "exited" /\ exc = ""

\* its rows
Persisted == IF OutputExists THEN out ELSE <<>>

\* C23: when a call raises while period k is processed, the records of
\* periods 1..k-1, computed before, are in the output file after the run
\* has stopped.
C23_ComputedPeriodsPreserved ==
  FailedInPeriod => Persisted = out


\* the number of periods on the schedule of the run
Scheduled ==
  CASE job.script = "accu_forecast_runner" -> job.horizon_years
    [] job.script = "ss_CoalaraCalc_OG" -> Len(job.cells)
    [] job.script = "PF_Sch1_Forecaster" -> job.HORIZON_YEARS

\* C24: after an error has stopped a run of accu_forecast_runner.py,
\* ss_CoalaraCalc_OG.py or PF_Sch1_Forecaster.py, its CSV file either does
\* not exist or holds one row for every scheduled period.
C24_NoPartialCsv ==
  (/\ job.script \in {"accu_forecast_runner", "ss_CoalaraCalc_OG",
                      "PF_Sch1_Forecaster"}
   /\ exc # ""
   /\ frame.pc = "raised") =>
    (~OutputExists \/ Len(out) = Scheduled)


\* C27: in the yearly loops of ss_CoalaraCalc_OG.py, Coalara_Calculatorv2.py
\* and the Dogwood script the sheet row read for period k is the start row
\* + 12 * (k - 1), whether the periods before it wrote a row, were skipped
\* for an empty output cell or had their exception caught.
C27_RowAdvancesByTwelve ==
  /\ job.script = "ss_CoalaraCalc_OG" =>
       \A k \in 1..Len(frame.read) : frame.read[k] = 51 + 12 * (k - 1)
  /\ job.script = "250423_monthly_forecasts_Dogwood" =>
       \A k \in 1..Len(frame.read) :
         frame.read[k] = <<67 + 12 * (k - 1), 66 + 12 * (k - 1),
                           105 + 12 * (k - 1), 122 + 12 * (k - 1)>>
  /\ job.script = "Coalara_Calculatorv2" =>
       frame.row_idx =
         (IF job.version = 1 THEN 2 ELSE 3) + 12 * frame.year_idx


\* the attempts of the periods done so far: at most RECALC_RETRIES + 1 each,
\* none after the first one that read a value, all of them when none did
AttemptsBounded ==
  job.script = "PF_Sch1_Forecaster" =>
    /\ frame.attempt <= RECALC_RETRIES + 1
    /\ Len(frame.tries) = frame.i
    /\ \A k \in 1..Len(frame.tries) :
         LET a == frame.tries[k]
         IN IF ~job.fc_date[k] THEN a = 0
            ELSE /\ a \in 1..(RECALC_RETRIES + 1)
                 /\ \A b \in 1..(a - 1) : job.D30[k][b] = None
                 /\ job.D30[k][a] = None => a = RECALC_RETRIES + 1
                 /\ out[k].calculated_accus = job.D30[k][a]
    /\ frame.reads <= job.HORIZON_YEARS * (RECALC_RETRIES + 1)
    /\ Len(out) = frame.i

\* C25: run_forecast reads the output cell at most RECALC_RETRIES + 1 times
\* in a period, stops at the first read that gives a value, gives the
\* period a row with a null reading after the last attempt, makes at most
\* N * (RECALC_RETRIES + 1) reads over N periods, and comes to its end.
C25_BoundedRetries ==
  /\ []AttemptsBounded
  /\ <>(frame.pc = "written" /\ Len(out) = job.HORIZON_YEARS)

\* a run of two periods: all attempts of the first read nothing, the second
\* attempt of the second read a value
C25_Witness ==
  /\ job.script = "PF_Sch1_Forecaster"
  /\ frame.pc = "written"
  /\ frame.tries = <<RECALC_RETRIES + 1, 2>>
  /\ frame.reads = RECALC_RETRIES + 3
  /\ out[1].calculated_accus = None
  /\ out[2].calculated_accus # None


\* C29: find_nearest_fullcam_date returns the target when the list has it;
\* otherwise a date of the list within tolerance_days of the target and as
\* near to it as any date of the list, the first such date in list order;
\* and None exactly when the list is empty or has no date within
\* tolerance_days of the target.
C29_NearestFullcamDate ==
  (job.call = "find_nearest_fullcam_date" /\ frame.pc = "returned") =>
    LET L == job.fullcam_dates
        target == job.target
        best == frame.result
        Within(k) == DaysApart(L[k], target) <= job.tolerance_days
    IN /\ (\E k \in 1..Len(L) : L[k] = target) => best = target
       /\ best = None <=> (L = <<>> \/ \A k \in 1..Len(L) : ~Within(k))
       /\ best # None =>
            \E k \in 1..Len(L) :
              /\ best = L[k]
              /\ Within(k)
              /\ \A m \in 1..Len(L) :
                   DaysApart(L[m], target) >= DaysApart(best, target)
              /\ \A m \in 1..(k - 1) :
                   DaysApart(L[m], target) > DaysApart(best, target)

\* two dates of the list are equally near to a target the list does not
\* have: the first of them is returned
C29_Witness ==
  /\ job.call = "find_nearest_fullcam_date"
  /\ frame.pc = "returned"
  /\ job.fullcam_dates = <<date(2023, 6, 18), date(2023, 6, 26),
                           date(2023, 6, 22)>>
  /\ job.target = date(2023, 6, 24)
  /\ job.tolerance_days = FULLCAM_TOLERANCE_DAYS
  /\ frame.result = date(2023, 6, 26)


(***************************************************************************)
(* The runs of AbortSpec, each step taken when it can be: the scripts are  *)
(* sequential code, no step waits for another process.                     *)
(***************************************************************************)
AbortFairSpec == AbortInit /\ [][AbortNext]_vars /\ WF_vars(AbortNext)

\* the calls of app.quit() made so far
Quits == IF "quits" \in DOMAIN frame THEN frame.quits ELSE 0

\* C30: a run of run_engine that has entered its try block always leaves
\* it, and has then quit Excel exactly once: after the save and after an
\* exception raised while opening the workbook, checking the labels,
\* computing the schedule or processing a period.  The restore of the
\* calculation mode fails in the finally block and does not prevent the
\* quit; before the finally block Excel has not been quit.
C30_QuitExactlyOnce ==
  /\ [](job.script = "Ep_Forecast_Engine"
          => Quits = (IF frame.pc = "exited" THEN 1 ELSE 0))
  /\ (job.script = "Ep_Forecast_Engine" => <>(frame.pc = "exited"))

\* a period was processed, the next one raised, Excel was quit once
C30_Witness ==
  /\ job.script = "Ep_Forecast_Engine"
  /\ frame.pc = "exited"
  /\ exc = "com_error"
  /\ Len(out) >= 1
  /\ frame.quits = 1


\* every cell of the row is None
CompletelyEmpty(ws, row) == \A c \in 1..Len(ws[row]) : ws[row][c] = None

\* the first and the second row are completely empty
TwoEmptyRows(ws) ==
  Len(ws) >= 2 /\ CompletelyEmpty(ws, 1) /\ CompletelyEmpty(ws, 2)

\* C26: when a run starts, clean_mi_export saves the master inventory
\* workbook without its first 2 rows when both of them are completely
\* empty, and with every row it had in every other case.
C26_DeletesTwoEmptyRows ==
  [][pc = "idle" /\ pc' = "forecast" /\ cfg'.master_inventory_workbook = "mi"
       => miFile' = SaveWorkbook(IF TwoEmptyRows(miFile)
                                 THEN delete_rows(miFile, 1, 2)
                                 ELSE miFile)]_vars


\* the entries of q at the positions of K, in the order of q
AtPositions(q, K) ==
  LET RECURSIVE From(_)
      From(i) == IF i > Len(q) THEN <<>>
                 ELSE IF i \in K THEN <<q[i]>> \o From(i + 1)
                 ELSE From(i + 1)
  IN From(1)

\* C28: the delta workbook of a successful run agrees with the table.  No
\* row is both kept and removed; the kept rows and the removed rows are the
\* two parts of the "Old Inventory Rows" snapshot, each in the order of the
\* ledger; the snapshot is the rows of the project in the ledger as loaded;
\* Rows Deleted is the number of loaded rows gone from the ledger, Rows
\* Added the number of forecast rows, of rows shown as new and of rows the
\* saved ledger has gained.
C28_ReportConsistent ==
  pc = "done" =>
    LET rep == deltaFile
        old == rep.old_rows
        all == 1..Len(old)
        project == {k \in 2..MaxRow(ws0) : Matched(k)}
        gone == {k \in 2..MaxRow(ws0) : Gone(k)}
    IN /\ Range(rep.kept) \cap Range(rep.removed) = {}
       /\ \E K \in SUBSET all :
            /\ rep.kept = AtPositions(old, K)
            /\ rep.removed = AtPositions(old, all \ K)
       /\ old = AtPositions([k \in 1..MaxRow(ws0) |->
                               _row_as_list(ws0, k, MaxColumn(ws0))], project)
       /\ rep.rows_deleted = Cardinality(gone)
       /\ rep.rows_deleted = Len(rep.removed)
       /\ rep.rows_added = Cardinality(ForecastDataRows)
       /\ rep.rows_added = Len(rep.new)
       /\ MaxRow(outFile) = MaxRow(ws0) - rep.rows_deleted + rep.rows_added

\* a report with a kept row, a removed row and an added row
C28_Witness ==
  /\ pc = "done"
  /\ Len(deltaFile.kept) >= 1
  /\ Len(deltaFile.removed) >= 1
  /\ deltaFile.rows_deleted >= 1
  /\ deltaFile.rows_added >= 1

=============================================================================
